---- MODULE Spec2Model ----
(***************************************************************************)
(* Model of the job-risk analyzer: the risk classifier                     *)
(* (calculate_displacement_risk) and the job record assembler              *)
(* (get_job_data) of job_api_integration.py.                               *)
(*                                                                         *)
(* Encoding of Python values                                               *)
(*   - str that the code inspects (titles, SOC codes): sequence of         *)
(*     one-character strings, so that lower(), split() and "in" are        *)
(*     computed and not assumed;                                           *)
(*   - str that the code only passes along: TLA+ string;                   *)
(*   - risk percentages (floats with one decimal): integer tenths,         *)
(*     60.0 is 600, 21.5 is 215;                                           *)
(*   - percent_change (float): integer tenths, -20 is -200, 9.8 is 98;     *)
(*   - automation_probability (float): integer hundredths, 0.75 is 75,     *)
(*     45.0 is 4500;                                                       *)
(*   - dict: record; a key that is absent is a field that is absent;       *)
(*   - a value whose Python type varies: [num |-> n], [str |-> s],         *)
(*     [none |-> TRUE].                                                    *)
(***************************************************************************)
EXTENDS Integers, Sequences, FiniteSets, TLC

VARIABLES
    risk_call,      \* arguments of the pending call of calculate_displacement_risk
    risk_result,    \* its outcome: nothing yet, a returned record, or a raised exception
    job_cache,      \* _job_cache: job_title.lower() -> job record
    ret,            \* the latest call of get_job_data: its title and how it ended
    calls,          \* number of get_job_data calls made so far
    internal_call,  \* arguments of the pending call of get_internal_job_data
    internal_result, \* its outcome: nothing yet, a returned record, or a raised exception
    database_import, \* how "from database import ..." ended in this process
    job_searches,   \* rows of the job_searches table
    session_job_searches, \* db_fallback.session_job_searches
    storage_file,   \* local_job_searches.json
    clock,          \* datetime.now(), in ticks
    request,        \* the latest lookup a caller made and how it ended
    recent,         \* the latest answer of get_recent_searches
    searches,       \* number of history operations made so far
    race_pc,        \* where each thread stands in its call of get_job_data
    race_local,     \* what each thread has computed or returned
    last_data_refresh, \* st.session_state.last_data_refresh of app_production.py
    current_date,   \* datetime.now() as seen by app_production.py
    refresh_happened, \* the latest call of app_production.check_data_refresh
    last_refresh,   \* last_refresh.json
    wall_clock,     \* datetime.now() as seen by app.py, in hours
    refresh_run,    \* the latest call of app.py's check_data_refresh
    autocomplete_call,   \* arguments of the latest call of search_job_titles
    autocomplete_result  \* what it returned

risk_vars == <<risk_call, risk_result>>
assembler_vars == <<job_cache, ret, calls>>
internal_vars == <<internal_call, internal_result>>
history_vars ==
    <<database_import, job_searches, session_job_searches, storage_file, clock, request,
      recent, searches>>
race_vars == <<race_pc, race_local>>
production_vars == <<last_data_refresh, current_date, refresh_happened>>
refresh_vars == <<last_refresh, wall_clock, refresh_run>>
autocomplete_vars == <<autocomplete_call, autocomplete_result>>
vars ==
    <<risk_call, risk_result, job_cache, ret, calls, internal_call, internal_result,
      database_import, job_searches, session_job_searches, storage_file, clock, request,
      recent, searches, race_pc, race_local, last_data_refresh, current_date,
      refresh_happened,
      last_refresh, wall_clock, refresh_run, autocomplete_call, autocomplete_result>>

\* what the actions of one component leave unchanged
outside_risk ==
    <<assembler_vars, internal_vars, history_vars, race_vars, production_vars, refresh_vars,
      autocomplete_vars>>
outside_assembler ==
    <<risk_vars, internal_vars, history_vars, race_vars, production_vars, refresh_vars,
      autocomplete_vars>>
outside_internal ==
    <<risk_vars, assembler_vars, history_vars, race_vars, production_vars, refresh_vars,
      autocomplete_vars>>
outside_history ==
    <<risk_vars, assembler_vars, internal_vars, race_vars, production_vars, refresh_vars,
      autocomplete_vars>>
outside_race ==
    <<risk_vars, ret, calls, internal_vars, history_vars, production_vars, refresh_vars,
      autocomplete_vars>>
outside_production ==
    <<risk_vars, internal_vars, history_vars, race_vars, refresh_vars,
      autocomplete_vars>>
outside_refresh ==
    <<risk_vars, assembler_vars, internal_vars, history_vars, race_vars, production_vars,
      autocomplete_vars>>
outside_autocomplete ==
    <<risk_vars, assembler_vars, internal_vars, history_vars, race_vars, production_vars,
      refresh_vars>>

(***************************************************************************)
(* Bounds                                                                  *)
(***************************************************************************)
\* percent_change inputs range over -MaxPct..MaxPct tenths of a percent
MaxPct == 250
\* get_job_data is called at most MaxCalls times in a run of the model
MaxCalls == 2
\* the search history is written or read at most MaxSearches times in a run
MaxSearches == 3
\* the job_titles table holds at most MaxTitles rows
MaxTitles == 3
\* app_production.py is watched for at most MaxMonths months
MaxMonths == 3
\* app.py's daily refresh is watched for at most MaxHours hours
MaxHours == 30

(***************************************************************************)
(* Python helpers                                                          *)
(***************************************************************************)
Max(a, b) == IF a >= b THEN a ELSE b
Min(a, b) == IF a <= b THEN a ELSE b

\* dict.get(k, default)
Get(d, k, default) == IF k \in DOMAIN d THEN d[k] ELSE default

\* index of the first occurrence of character c in s, Len(s)+1 when there is none
RECURSIVE FirstIndex(_, _, _)
FirstIndex(s, c, i) ==
    IF i > Len(s) THEN i
    ELSE IF s[i] = c THEN i
    ELSE FirstIndex(s, c, i + 1)

\* occ_code.split('-')[0]
SocMajorGroup(occ_code) == SubSeq(occ_code, 1, FirstIndex(occ_code, "-", 1) - 1)

(***************************************************************************)
(* Risk classifier: calculate_displacement_risk                            *)
(***************************************************************************)
\* percent_change <= bound, as Python evaluates it: a TypeError for None and str
Comparable(percent_change) == "num" \in DOMAIN percent_change

\* Mutant of BaseBucket: strict comparisons, a boundary value falls in the milder bucket
BaseBucketStrict(pc) ==
    IF pc < -200 THEN
        [year_1_risk |-> 600, year_5_risk |-> 900, risk_category |-> "Very High",
         risk_factors |-> <<"BLS projects significant employment decline for this occupation">>,
         protective_factors |-> <<>>, growth_analysis |-> "Significant decline projected"]
    ELSE IF pc < -100 THEN
        [year_1_risk |-> 400, year_5_risk |-> 750, risk_category |-> "High",
         risk_factors |-> <<"BLS projects moderate employment decline for this occupation">>,
         protective_factors |-> <<>>, growth_analysis |-> "Moderate decline projected"]
    ELSE IF pc < 0 THEN
        [year_1_risk |-> 250, year_5_risk |-> 500, risk_category |-> "Moderate",
         risk_factors |-> <<"BLS projects slight employment decline for this occupation">>,
         protective_factors |-> <<>>, growth_analysis |-> "Slight decline projected"]
    ELSE IF pc < 100 THEN
        [year_1_risk |-> 150, year_5_risk |-> 350, risk_category |-> "Moderate",
         risk_factors |-> <<>>,
         protective_factors |-> <<"BLS projects slight employment growth for this occupation">>,
         growth_analysis |-> "Slight growth projected"]
    ELSE
        [year_1_risk |-> 100, year_5_risk |-> 250, risk_category |-> "Low",
         risk_factors |-> <<>>,
         protective_factors |-> <<"BLS projects significant employment growth for this occupation">>,
         growth_analysis |-> "Strong growth projected"]

\* Base risk assessment on employment projections (pc is a number, in tenths)
BaseBucket(pc) ==
    IF pc <= -200 THEN
        [year_1_risk |-> 600, year_5_risk |-> 900, risk_category |-> "Very High",
         risk_factors |-> <<"BLS projects significant employment decline for this occupation">>,
         protective_factors |-> <<>>, growth_analysis |-> "Significant decline projected"]
    ELSE IF pc <= -100 THEN
        [year_1_risk |-> 400, year_5_risk |-> 750, risk_category |-> "High",
         risk_factors |-> <<"BLS projects moderate employment decline for this occupation">>,
         protective_factors |-> <<>>, growth_analysis |-> "Moderate decline projected"]
    ELSE IF pc <= 0 THEN
        [year_1_risk |-> 250, year_5_risk |-> 500, risk_category |-> "Moderate",
         risk_factors |-> <<"BLS projects slight employment decline for this occupation">>,
         protective_factors |-> <<>>, growth_analysis |-> "Slight decline projected"]
    ELSE IF pc <= 100 THEN
        [year_1_risk |-> 150, year_5_risk |-> 350, risk_category |-> "Moderate",
         risk_factors |-> <<>>,
         protective_factors |-> <<"BLS projects slight employment growth for this occupation">>,
         growth_analysis |-> "Slight growth projected"]
    ELSE
        [year_1_risk |-> 100, year_5_risk |-> 250, risk_category |-> "Low",
         risk_factors |-> <<>>,
         protective_factors |-> <<"BLS projects significant employment growth for this occupation">>,
         growth_analysis |-> "Strong growth projected"]

\* The metrics initialised before the group dispatch
InitMetrics(s) ==
    [year_1_risk |-> s.year_1_risk, year_5_risk |-> s.year_5_risk,
     risk_category |-> s.risk_category,
     risk_factors |-> s.risk_factors, protective_factors |-> s.protective_factors,
     growth_analysis |-> s.growth_analysis,
     wage_trend |-> "Stable", automation_probability |-> 0, evolving_skills |-> <<>>]

\* Mutant of AdjustAdministrative: the two deltas exchanged
AdjustAdministrativeSwapped(s) ==
    [s EXCEPT !.risk_factors = @ \o <<"Administrative tasks are highly susceptible to automation",
                                      "Document processing can be handled by AI systems">>,
              !.year_1_risk = @ + 150,
              !.year_5_risk = @ + 100,
              !.automation_probability = 75,
              !.wage_trend = "Declining",
              !.evolving_skills = <<"Advanced data analysis", "Digital process management",
                                    "Client relationship management">>]

\* Administrative support occupations (43-XXXX)
AdjustAdministrative(s) ==
    [s EXCEPT !.risk_factors = @ \o <<"Administrative tasks are highly susceptible to automation",
                                      "Document processing can be handled by AI systems">>,
              !.year_1_risk = @ + 100,
              !.year_5_risk = @ + 150,
              !.automation_probability = 75,
              !.wage_trend = "Declining",
              !.evolving_skills = <<"Advanced data analysis", "Digital process management",
                                    "Client relationship management">>]

\* Computer occupations (15-XXXX)
AdjustComputer(s) ==
    [s EXCEPT !.risk_factors = @ \o <<"Automated code generation is improving rapidly">>,
              !.protective_factors = @ \o <<"Complex problem-solving still requires human insight">>,
              !.automation_probability = 35,
              !.wage_trend = "Increasing",
              !.evolving_skills = <<"AI/ML engineering", "Cloud architecture",
                                    "Cybersecurity expertise">>]

\* Healthcare practitioners (29-XXXX)
AdjustHealthcare(s) ==
    [s EXCEPT !.protective_factors = @ \o <<"Direct patient care requires human empathy and dexterity">>,
              !.year_1_risk = @ - 50,
              !.year_5_risk = @ - 100,
              !.automation_probability = 20,
              !.wage_trend = "Increasing",
              !.evolving_skills = <<"Telemedicine competence", "Medical technology operation",
                                    "Patient data interpretation">>]

\* Mutant of AdjustTransportation: the category follows the adjusted 5-year risk
AdjustTransportationRecategorised(s) ==
    [s EXCEPT !.risk_factors = @ \o <<"Autonomous vehicle technology is developing rapidly">>,
              !.year_1_risk = @ + 50,
              !.year_5_risk = @ + 100,
              !.risk_category = IF s.year_5_risk + 100 > 500 THEN "High" ELSE @,
              !.automation_probability = 65,
              !.wage_trend = "Stable to declining",
              !.evolving_skills = <<"Advanced vehicle systems", "Logistics optimization",
                                    "Remote monitoring">>]

\* Transportation occupations (53-XXXX)
AdjustTransportation(s) ==
    [s EXCEPT !.risk_factors = @ \o <<"Autonomous vehicle technology is developing rapidly">>,
              !.year_1_risk = @ + 50,
              !.year_5_risk = @ + 100,
              !.automation_probability = 65,
              !.wage_trend = "Stable to declining",
              !.evolving_skills = <<"Advanced vehicle systems", "Logistics optimization",
                                    "Remote monitoring">>]

\* Mutant of AdjustManagement: the fixed values added to the base values
AdjustManagementDelta(s) ==
    [s EXCEPT !.protective_factors = @ \o <<"Strategic decision-making requires human judgment",
                                            "Complex stakeholder management requires human relationships">>,
              !.risk_factors = @ \o <<"Project management software becoming increasingly automated">>,
              !.year_1_risk = @ + 350,
              !.year_5_risk = @ + 600,
              !.automation_probability = 45,
              !.wage_trend = "Stable to increasing, depending on specialization",
              !.evolving_skills = <<"AI tools implementation and oversight",
                                    "Data-driven decision making", "Agile management practices",
                                    "Cross-functional leadership", "Change management expertise">>]

\* Management occupations (11-XXXX): the risk values are overwritten
AdjustManagement(s) ==
    [s EXCEPT !.protective_factors = @ \o <<"Strategic decision-making requires human judgment",
                                            "Complex stakeholder management requires human relationships">>,
              !.risk_factors = @ \o <<"Project management software becoming increasingly automated">>,
              !.year_1_risk = 350,
              !.year_5_risk = 600,
              !.automation_probability = 45,
              !.wage_trend = "Stable to increasing, depending on specialization",
              !.evolving_skills = <<"AI tools implementation and oversight",
                                    "Data-driven decision making", "Agile management practices",
                                    "Cross-functional leadership", "Change management expertise">>]

\* Education occupations (25-XXXX)
AdjustEducation(s) ==
    [s EXCEPT !.protective_factors = @ \o <<"Teaching requires adaptability and emotional intelligence">>,
              !.year_1_risk = @ - 30,
              !.year_5_risk = @ - 70,
              !.automation_probability = 30,
              !.wage_trend = "Stable",
              !.evolving_skills = <<"Educational technology proficiency",
                                    "Personalized learning approaches", "Digital content creation">>]

\* Sales occupations (41-XXXX)
AdjustSales(s) ==
    [s EXCEPT !.risk_factors = @ \o <<"Online shopping and self-service technologies reduce demand">>,
              !.year_1_risk = @ + 80,
              !.year_5_risk = @ + 120,
              !.automation_probability = 55,
              !.wage_trend = "Declining for basic roles, increasing for consultative sales",
              !.evolving_skills = <<"Consultative selling", "Customer experience design",
                                    "Digital marketing">>]

\* Food preparation (35-XXXX)
AdjustFood(s) ==
    [s EXCEPT !.risk_factors = @ \o <<"Food preparation and service seeing increased automation">>,
              !.year_1_risk = @ + 70,
              !.year_5_risk = @ + 140,
              !.automation_probability = 60,
              !.wage_trend = "Stable to declining",
              !.evolving_skills = <<"Culinary specialization", "Customer experience",
                                    "Food safety and quality management">>]

\* Production occupations (51-XXXX)
AdjustProduction(s) ==
    [s EXCEPT !.risk_factors = @ \o <<"Manufacturing processes increasingly automated">>,
              !.year_1_risk = @ + 120,
              !.year_5_risk = @ + 180,
              !.automation_probability = 80,
              !.wage_trend = "Declining",
              !.evolving_skills = <<"Advanced manufacturing tech", "Quality control systems",
                                    "Process optimization">>]

\* Default values for other occupations
AdjustDefault(s) ==
    [s EXCEPT !.automation_probability = 40,
              !.wage_trend = "Varies by specialization",
              !.evolving_skills = <<"Digital literacy", "Data analysis",
                                    "Adaptability and continuous learning">>]

\* The if/elif dispatch on the SOC major group
GroupAdjustment(soc_major_group, s) ==
    IF soc_major_group = <<"4", "3">> THEN AdjustAdministrative(s)
    ELSE IF soc_major_group = <<"1", "5">> THEN AdjustComputer(s)
    ELSE IF soc_major_group = <<"2", "9">> THEN AdjustHealthcare(s)
    ELSE IF soc_major_group = <<"5", "3">> THEN AdjustTransportation(s)
    ELSE IF soc_major_group = <<"1", "1">> THEN AdjustManagement(s)
    ELSE IF soc_major_group = <<"2", "5">> THEN AdjustEducation(s)
    ELSE IF soc_major_group = <<"4", "1">> THEN AdjustSales(s)
    ELSE IF soc_major_group = <<"3", "5">> THEN AdjustFood(s)
    ELSE IF soc_major_group = <<"5", "1">> THEN AdjustProduction(s)
    ELSE AdjustDefault(s)

\* Mutant of ClampRisk: no clamping
ClampRiskNone(lo, hi, v) == v

\* max(lo, min(hi, v))
ClampRisk(lo, hi, v) == Max(lo, Min(hi, v))

\* Mutant of OrderRisks: the maximum is assigned to the wrong variable
OrderRisksWrongVar(s) ==
    [s EXCEPT !.year_1_risk = Max(s.year_5_risk, s.year_1_risk + 50)]

\* Make sure 5-year risk is at least as high as 1-year risk
OrderRisks(s) ==
    [s EXCEPT !.year_5_risk = Max(s.year_5_risk, s.year_1_risk + 50)]

\* Ensure risk values are within bounds, then order them
NormalizeRisk(s) ==
    OrderRisks([s EXCEPT !.year_1_risk = ClampRisk(50, 950, @),
                         !.year_5_risk = ClampRisk(100, 950, @)])

\* generate_analysis_text: one of four templates, chosen by risk_category alone
generate_analysis_text(job_title, risk_category) ==
    [template |-> IF risk_category = "Very High" THEN "extremely high displacement risk"
                  ELSE IF risk_category = "High" THEN "significant displacement risk"
                  ELSE IF risk_category = "Moderate" THEN "moderate automation risk"
                  ELSE "relatively low displacement risk",
     job_title |-> job_title]

\* The outcome of a call: [returned |-> record] or [raised |-> exception]
Returned(v) == [returned |-> v]
Raised(e) == [raised |-> e]
IsReturned(o) == "returned" \in DOMAIN o
IsRaised(o) == "raised" \in DOMAIN o

calculate_displacement_risk(job_title, occ_code, occupation_data, projection_data) ==
    LET projections == Get(projection_data, "projections", <<>>)
        percent_change == Get(projections, "percent_change", [num |-> 0])
    IN  IF ~Comparable(percent_change) THEN Raised("TypeError")
        ELSE
        LET base == BaseBucket(percent_change.num)
            adj == GroupAdjustment(SocMajorGroup(occ_code), InitMetrics(base))
            s == NormalizeRisk(adj)
        IN  Returned(
            [year_1_risk |-> s.year_1_risk,
             year_5_risk |-> s.year_5_risk,
             risk_category |-> s.risk_category,
             risk_factors |-> s.risk_factors,
             protective_factors |-> s.protective_factors,
             analysis |-> generate_analysis_text(job_title, s.risk_category),
             projected_growth |-> [percent_change |-> percent_change,
                                   analysis |-> s.growth_analysis],
             automation_probability |-> s.automation_probability,
             wage_trend |-> s.wage_trend,
             evolving_skills |-> s.evolving_skills])

\* projection_data without projections, and with a percent_change
NoProjections == <<>>
ProjectionWith(v) == [projections |-> [percent_change |-> v]]

\* no outcome yet
Pending == [pending |-> TRUE]

(***************************************************************************)
(* Strings                                                                 *)
(***************************************************************************)
UpperLetters ==
    <<"A", "B", "C", "D", "E", "F", "G", "H", "I", "J", "K", "L", "M",
      "N", "O", "P", "Q", "R", "S", "T", "U", "V", "W", "X", "Y", "Z">>
LowerLetters ==
    <<"a", "b", "c", "d", "e", "f", "g", "h", "i", "j", "k", "l", "m",
      "n", "o", "p", "q", "r", "s", "t", "u", "v", "w", "x", "y", "z">>

\* str.lower() on one character
LowerChar(c) ==
    IF \E i \in 1..Len(UpperLetters) : UpperLetters[i] = c
    THEN LowerLetters[CHOOSE i \in 1..Len(UpperLetters) : UpperLetters[i] = c]
    ELSE c

\* str.lower()
Lower(s) == [i \in 1..Len(s) |-> LowerChar(s[i])]

\* kw in s
Contains(s, kw) ==
    \E i \in 1..(Len(s) - Len(kw) + 1) : SubSeq(s, i, i + Len(kw) - 1) = kw

\* any(keyword in s for keyword in keywords)
AnyKeyword(s, keywords) == \E k \in 1..Len(keywords) : Contains(s, keywords[k])

\* The titles that get_job_data compares job_title.lower() with

T_project_manager ==
    <<"p", "r", "o", "j", "e", "c", "t", " ", "m", "a", "n", "a", "g", "e", "r">>

T_nurse ==
    <<"n", "u", "r", "s", "e">>

T_registered_nurse ==
    <<"r", "e", "g", "i", "s", "t", "e", "r", "e", "d", " ", "n", "u", "r", "s", "e">>

T_retail_sales ==
    <<"r", "e", "t", "a", "i", "l", " ", "s", "a", "l", "e", "s">>

T_retail_salesperson ==
    <<"r", "e", "t", "a", "i", "l", " ", "s", "a", "l", "e", "s", "p", "e", "r", "s",
      "o", "n">>

T_sales_associate ==
    <<"s", "a", "l", "e", "s", " ", "a", "s", "s", "o", "c", "i", "a", "t", "e">>

T_cook ==
    <<"c", "o", "o", "k">>

T_chef ==
    <<"c", "h", "e", "f">>

T_food_preparation ==
    <<"f", "o", "o", "d", " ", "p", "r", "e", "p", "a", "r", "a", "t", "i", "o", "n">>

T_business_analyst ==
    <<"b", "u", "s", "i", "n", "e", "s", "s", " ", "a", "n", "a", "l", "y", "s", "t">>

T_business_systems_analyst ==
    <<"b", "u", "s", "i", "n", "e", "s", "s", " ", "s", "y", "s", "t", "e", "m", "s",
      " ", "a", "n", "a", "l", "y", "s", "t">>

T_diagnosician ==
    <<"d", "i", "a", "g", "n", "o", "s", "i", "c", "i", "a", "n">>

T_diagnoscian ==
    <<"d", "i", "a", "g", "n", "o", "s", "c", "i", "a", "n">>

T_medical_diagnostician ==
    <<"m", "e", "d", "i", "c", "a", "l", " ", "d", "i", "a", "g", "n", "o", "s", "t",
      "i", "c", "i", "a", "n">>

T_ui_developer ==
    <<"u", "i", " ", "d", "e", "v", "e", "l", "o", "p", "e", "r">>

T_ui_designer ==
    <<"u", "i", " ", "d", "e", "s", "i", "g", "n", "e", "r">>

T_user_interface_developer ==
    <<"u", "s", "e", "r", " ", "i", "n", "t", "e", "r", "f", "a", "c", "e", " ", "d",
      "e", "v", "e", "l", "o", "p", "e", "r">>

T_web_developer ==
    <<"w", "e", "b", " ", "d", "e", "v", "e", "l", "o", "p", "e", "r">>

T_web_programmer ==
    <<"w", "e", "b", " ", "p", "r", "o", "g", "r", "a", "m", "m", "e", "r">>

T_website_developer ==
    <<"w", "e", "b", "s", "i", "t", "e", " ", "d", "e", "v", "e", "l", "o", "p", "e",
      "r">>

T_teacher ==
    <<"t", "e", "a", "c", "h", "e", "r">>

T_educator ==
    <<"e", "d", "u", "c", "a", "t", "o", "r">>

T_instructor ==
    <<"i", "n", "s", "t", "r", "u", "c", "t", "o", "r">>

T_elementary_school_teachers ==
    <<"e", "l", "e", "m", "e", "n", "t", "a", "r", "y", " ", "s", "c", "h", "o", "o",
      "l", " ", "t", "e", "a", "c", "h", "e", "r", "s">>

T_elementary_teacher ==
    <<"e", "l", "e", "m", "e", "n", "t", "a", "r", "y", " ", "t", "e", "a", "c", "h",
      "e", "r">>

T_middle_school_teachers ==
    <<"m", "i", "d", "d", "l", "e", " ", "s", "c", "h", "o", "o", "l", " ", "t", "e",
      "a", "c", "h", "e", "r", "s">>

T_middle_school_teacher ==
    <<"m", "i", "d", "d", "l", "e", " ", "s", "c", "h", "o", "o", "l", " ", "t", "e",
      "a", "c", "h", "e", "r">>

T_court_reporter ==
    <<"c", "o", "u", "r", "t", " ", "r", "e", "p", "o", "r", "t", "e", "r">>

T_digital_court_reporter ==
    <<"d", "i", "g", "i", "t", "a", "l", " ", "c", "o", "u", "r", "t", " ", "r", "e",
      "p", "o", "r", "t", "e", "r">>

T_stenographer ==
    <<"s", "t", "e", "n", "o", "g", "r", "a", "p", "h", "e", "r">>

\* The job_title values of the hand-authored records and of the provider's matches

T_Project_Manager ==
    <<"P", "r", "o", "j", "e", "c", "t", " ", "M", "a", "n", "a", "g", "e", "r">>

T_Registered_Nurse ==
    <<"R", "e", "g", "i", "s", "t", "e", "r", "e", "d", " ", "N", "u", "r", "s", "e">>

T_Retail_Salesperson ==
    <<"R", "e", "t", "a", "i", "l", " ", "S", "a", "l", "e", "s", "p", "e", "r", "s",
      "o", "n">>

T_Restaurant_Cook ==
    <<"R", "e", "s", "t", "a", "u", "r", "a", "n", "t", " ", "C", "o", "o", "k">>

T_Business_Analyst ==
    <<"B", "u", "s", "i", "n", "e", "s", "s", " ", "A", "n", "a", "l", "y", "s", "t">>

T_Diagnosician ==
    <<"D", "i", "a", "g", "n", "o", "s", "i", "c", "i", "a", "n">>

T_UI_Developer ==
    <<"U", "I", " ", "D", "e", "v", "e", "l", "o", "p", "e", "r">>

T_Web_Developer ==
    <<"W", "e", "b", " ", "D", "e", "v", "e", "l", "o", "p", "e", "r">>

T_Elementary_School_Teachers ==
    <<"E", "l", "e", "m", "e", "n", "t", "a", "r", "y", " ", "S", "c", "h", "o", "o",
      "l", " ", "T", "e", "a", "c", "h", "e", "r", "s">>

T_Middle_School_Teachers ==
    <<"M", "i", "d", "d", "l", "e", " ", "S", "c", "h", "o", "o", "l", " ", "T", "e",
      "a", "c", "h", "e", "r", "s">>

T_Court_Reporter ==
    <<"C", "o", "u", "r", "t", " ", "R", "e", "p", "o", "r", "t", "e", "r">>

T_Related_Position_1 ==
    <<"R", "e", "l", "a", "t", "e", "d", " ", "P", "o", "s", "i", "t", "i", "o", "n",
      " ", "1">>

T_Related_Position_2 ==
    <<"R", "e", "l", "a", "t", "e", "d", " ", "P", "o", "s", "i", "t", "i", "o", "n",
      " ", "2">>

T_Welders ==
    <<"W", "e", "l", "d", "e", "r", "s">>

T_Customer_Service_Representatives ==
    <<"C", "u", "s", "t", "o", "m", "e", "r", " ", "S", "e", "r", "v", "i", "c", "e",
      " ", "R", "e", "p", "r", "e", "s", "e", "n", "t", "a", "t", "i", "v", "e", "s">>

\* Titles a caller passes that are in no special-case branch, and a mixed-case alias

T_Welder ==
    <<"W", "e", "l", "d", "e", "r">>

T_welder ==
    <<"w", "e", "l", "d", "e", "r">>

T_Unknown_Job_XYZ ==
    <<"U", "n", "k", "n", "o", "w", "n", " ", "J", "o", "b", " ", "X", "Y", "Z">>

T_Nurse ==
    <<"N", "u", "r", "s", "e">>

\* "middle", the substring get_teacher_data looks for

K_middle ==
    <<"m", "i", "d", "d", "l", "e">>

\* Titles that reach get_internal_job_data and carry its keywords

T_Software_Engineer ==
    <<"S", "o", "f", "t", "w", "a", "r", "e", " ", "E", "n", "g", "i", "n", "e", "e",
      "r">>

T_App_Development_Lead ==
    <<"A", "p", "p", " ", "D", "e", "v", "e", "l", "o", "p", "m", "e", "n", "t", " ",
      "L", "e", "a", "d">>

T_Nurse_Practitioner ==
    <<"N", "u", "r", "s", "e", " ", "P", "r", "a", "c", "t", "i", "t", "i", "o", "n",
      "e", "r">>

T_Medical_Technician ==
    <<"M", "e", "d", "i", "c", "a", "l", " ", "T", "e", "c", "h", "n", "i", "c", "i",
      "a", "n">>

T_Nursing_Instructor ==
    <<"N", "u", "r", "s", "i", "n", "g", " ", "I", "n", "s", "t", "r", "u", "c", "t",
      "o", "r">>

T_Nursing_Aide ==
    <<"N", "u", "r", "s", "i", "n", "g", " ", "A", "i", "d", "e">>

T_Paramedic ==
    <<"P", "a", "r", "a", "m", "e", "d", "i", "c">>

\* Titles typed with surrounding whitespace
T_nurse_padded ==
    <<" ", "n", "u", "r", "s", "e", " ">>

T_welder_padded ==
    <<"w", "e", "l", "d", "e", "r", " ">>

\* Titles of the sample searches of db_fallback.get_recent_searches
T_Data_Scientist ==
    <<"D", "a", "t", "a", " ", "S", "c", "i", "e", "n", "t", "i", "s", "t">>

T_Teacher ==
    <<"T", "e", "a", "c", "h", "e", "r">>

T_Truck_Driver ==
    <<"T", "r", "u", "c", "k", " ", "D", "r", "i", "v", "e", "r">>

\* the keywords of get_internal_job_data that name Technology and Healthcare

K_develop ==
    <<"d", "e", "v", "e", "l", "o", "p">>

K_engineer ==
    <<"e", "n", "g", "i", "n", "e", "e", "r">>

K_nurs ==
    <<"n", "u", "r", "s">>

K_medic ==
    <<"m", "e", "d", "i", "c">>

\* Occupation codes

SOC_11_3021 ==
    <<"1", "1", "-", "3", "0", "2", "1">>

SOC_29_1141 ==
    <<"2", "9", "-", "1", "1", "4", "1">>

SOC_41_2031 ==
    <<"4", "1", "-", "2", "0", "3", "1">>

SOC_35_2014 ==
    <<"3", "5", "-", "2", "0", "1", "4">>

SOC_13_1111 ==
    <<"1", "3", "-", "1", "1", "1", "1">>

SOC_29_1213 ==
    <<"2", "9", "-", "1", "2", "1", "3">>

SOC_15_1254 ==
    <<"1", "5", "-", "1", "2", "5", "4">>

SOC_25_2021 ==
    <<"2", "5", "-", "2", "0", "2", "1">>

SOC_25_2022 ==
    <<"2", "5", "-", "2", "0", "2", "2">>

SOC_23_2011 ==
    <<"2", "3", "-", "2", "0", "1", "1">>

SOC_00_0000 ==
    <<"0", "0", "-", "0", "0", "0", "0">>

SOC_00_0001 ==
    <<"0", "0", "-", "0", "0", "0", "1">>

SOC_00_0002 ==
    <<"0", "0", "-", "0", "0", "0", "2">>

SOC_51_4121 ==
    <<"5", "1", "-", "4", "1", "2", "1">>

SOC_43_4051 ==
    <<"4", "3", "-", "4", "0", "5", "1">>

\* The keyword lists of get_internal_job_data

KeywordsTechnology ==
    <<<<"d", "e", "v", "e", "l", "o", "p">>,
      <<"p", "r", "o", "g", "r", "a", "m">>,
      <<"e", "n", "g", "i", "n", "e", "e", "r">>,
      <<"t", "e", "c", "h">>,
      <<"d", "a", "t", "a">>,
      <<"i", "t">>>>

KeywordsMarketingAndSales ==
    <<<<"m", "a", "r", "k", "e", "t">>,
      <<"s", "a", "l", "e", "s">>,
      <<"a", "d", "v", "e", "r", "t", "i", "s">>,
      <<"b", "r", "a", "n", "d">>,
      <<"c", "o", "n", "t", "e", "n", "t">>>>

KeywordsFinance ==
    <<<<"f", "i", "n", "a", "n", "c">>,
      <<"a", "c", "c", "o", "u", "n", "t">>,
      <<"a", "u", "d", "i", "t">>,
      <<"t", "a", "x">>,
      <<"i", "n", "v", "e", "s", "t">>>>

KeywordsHumanResources ==
    <<<<"h", "r">>,
      <<"r", "e", "c", "r", "u", "i", "t">>,
      <<"h", "u", "m", "a", "n", " ", "r", "e", "s", "o", "u", "r", "c", "e">>,
      <<"t", "a", "l", "e", "n", "t">>>>

KeywordsEducation ==
    <<<<"t", "e", "a", "c", "h">>,
      <<"e", "d", "u", "c", "a", "t">>,
      <<"i", "n", "s", "t", "r", "u", "c", "t">>,
      <<"p", "r", "o", "f", "e", "s", "s", "o", "r">>>>

KeywordsHealthcare ==
    <<<<"h", "e", "a", "l", "t", "h">>,
      <<"m", "e", "d", "i", "c">>,
      <<"n", "u", "r", "s">>,
      <<"d", "o", "c", "t", "o", "r">>,
      <<"c", "a", "r", "e">>>>

(***************************************************************************)
(* Hand-authored records of the special-case branches of get_job_data.     *)
(* The narrative literals (factor lists, skills, similar jobs, trend       *)
(* series) are constants of each record and are left out.                  *)
(***************************************************************************)
get_court_reporter_data ==
    [job_title |-> T_Court_Reporter, occupation_code |-> SOC_23_2011,
     job_category |-> "Legal",
     automation_probability |-> 4500,
     risk_scores |-> [year_1 |-> 250, year_5 |-> 450],
     risk_category |-> "Moderate"]

get_project_manager_data ==
    [job_title |-> T_Project_Manager, occupation_code |-> SOC_11_3021,
     source |-> "enhanced_data", employment_data |-> <<>>,
     latest_employment |-> [str |-> "571300"],
     projections |-> [current_employment |-> 571300, projected_employment |-> 627430,
                      percent_change |-> [num |-> 98],
                      annual_job_openings |-> [num |-> 47500]],
     risk_analysis |-> [year_1_risk |-> 350, year_5_risk |-> 600,
                        risk_category |-> "Moderate to High",
                        projected_growth |-> [percent_change |-> [num |-> 98],
                                              analysis |-> "Moderate growth projected"],
                        automation_probability |-> 45,
                        wage_trend |-> "Stable to increasing for specialized roles"]]

\* the record written out in the "nurse" / "registered nurse" branch
NurseRecord ==
    [job_title |-> T_Registered_Nurse, occupation_code |-> SOC_29_1141,
     job_category |-> "Healthcare", source |-> "enhanced_data",
     latest_employment |-> [str |-> "3130600"],
     projections |-> [current_employment |-> 3130600, projected_employment |-> 3458200,
                      percent_change |-> [num |-> 105],
                      annual_job_openings |-> [num |-> 203200]],
     automation_probability |-> 2000,
     risk_scores |-> [year_1 |-> 150, year_5 |-> 300],
     risk_category |-> "Low to Moderate"]

get_retail_sales_data ==
    [job_title |-> T_Retail_Salesperson, occupation_code |-> SOC_41_2031,
     source |-> "enhanced_data", employment_data |-> <<>>,
     latest_employment |-> [str |-> "3625500"],
     projections |-> [current_employment |-> 3625500, projected_employment |-> 3464000,
                      percent_change |-> [num |-> -45],
                      annual_job_openings |-> [num |-> 606000]],
     risk_analysis |-> [year_1_risk |-> 550, year_5_risk |-> 750,
                        risk_category |-> "High",
                        projected_growth |-> [percent_change |-> [num |-> -45],
                                              analysis |-> "Moderate decline projected"],
                        automation_probability |-> 70,
                        wage_trend |-> "Declining for general positions, stable for specialized sales"]]

get_cook_data ==
    [job_title |-> T_Restaurant_Cook, occupation_code |-> SOC_35_2014,
     source |-> "enhanced_data", employment_data |-> <<>>,
     latest_employment |-> [str |-> "1235800"],
     projections |-> [current_employment |-> 1235800, projected_employment |-> 1334600,
                      percent_change |-> [num |-> 80],
                      annual_job_openings |-> [num |-> 178800]],
     risk_analysis |-> [year_1_risk |-> 400, year_5_risk |-> 650,
                        risk_category |-> "Moderate to High",
                        projected_growth |-> [percent_change |-> [num |-> 80],
                                              analysis |-> "Moderate growth projected"],
                        automation_probability |-> 60,
                        wage_trend |-> "Stable to increasing for specialized culinary skills"]]

get_teacher_data(job_title) ==
    [job_title |-> IF Contains(Lower(job_title), K_middle)
                   THEN T_Middle_School_Teachers ELSE T_Elementary_School_Teachers,
     occupation_code |-> IF Contains(Lower(job_title), K_middle)
                         THEN SOC_25_2022 ELSE SOC_25_2021,
     source |-> "enhanced_data", employment_data |-> <<>>,
     latest_employment |-> [str |-> "1430000"],
     projections |-> [current_employment |-> 1430000, projected_employment |-> 1515000,
                      percent_change |-> [num |-> 60],
                      annual_job_openings |-> [num |-> 124300]],
     risk_analysis |-> [year_1_risk |-> 150, year_5_risk |-> 300,
                        risk_category |-> "Low"]]

get_web_developer_data ==
    [job_title |-> T_Web_Developer, occupation_code |-> SOC_15_1254,
     source |-> "enhanced_data", employment_data |-> <<>>,
     latest_employment |-> [str |-> "199400"],
     projections |-> [current_employment |-> 199400, projected_employment |-> 224800,
                      percent_change |-> [num |-> 127],
                      annual_job_openings |-> [num |-> 21800]],
     risk_analysis |-> [year_1_risk |-> 180, year_5_risk |-> 380,
                        risk_category |-> "Moderate",
                        projected_growth |-> [percent_change |-> [num |-> 127],
                                              analysis |-> "Strong growth projected"],
                        automation_probability |-> 38,
                        wage_trend |-> "Increasing, especially for those with specialized skills"]]

get_business_analyst_data ==
    [job_title |-> T_Business_Analyst, occupation_code |-> SOC_13_1111,
     source |-> "enhanced_data", employment_data |-> <<>>,
     latest_employment |-> [str |-> "950600"],
     projections |-> [current_employment |-> 950600, projected_employment |-> 1032200,
                      percent_change |-> [num |-> 86],
                      annual_job_openings |-> [num |-> 95800]],
     risk_analysis |-> [year_1_risk |-> 250, year_5_risk |-> 450,
                        risk_category |-> "Moderate",
                        projected_growth |-> [percent_change |-> [num |-> 86],
                                              analysis |-> "Moderate growth projected"],
                        automation_probability |-> 45,
                        wage_trend |-> "Stable, with growth for specialized analysts"]]

\* the record get_diagnosician_data builds (it also stores it in the cache)
get_diagnosician_data ==
    [job_title |-> T_Diagnosician, occupation_code |-> SOC_29_1213,
     latest_employment |-> [str |-> "78,300"],
     projections |-> [percent_change |-> [num |-> 152],
                      annual_job_openings |-> [num |-> 8950]],
     risk_analysis |-> [year_1_risk |-> 215, year_5_risk |-> 368,
                        automation_probability |-> 29,
                        wage_trend |-> "Increasing",
                        projected_growth |->
                            [analysis |-> "Steady growth with evolving responsibilities"]]]

get_ui_developer_data ==
    [job_title |-> T_UI_Developer, occupation_code |-> SOC_15_1254,
     source |-> "enhanced_data", employment_data |-> <<>>,
     latest_employment |-> [str |-> "192800"],
     projections |-> [current_employment |-> 192800, projected_employment |-> 222900,
                      percent_change |-> [num |-> 156],
                      annual_job_openings |-> [num |-> 19200]],
     risk_analysis |-> [year_1_risk |-> 200, year_5_risk |-> 400,
                        risk_category |-> "Moderate",
                        projected_growth |-> [percent_change |-> [num |-> 156],
                                              analysis |-> "Strong growth projected"],
                        automation_probability |-> 40,
                        wage_trend |-> "Growing, especially for those with UX skills"]]

(***************************************************************************)
(* Special-case dispatch of get_job_data                                   *)
(***************************************************************************)
\* Mutant of IsNurseTitle: the alias "nurse" is missing
IsNurseTitleNoAlias(job_title_lower) == job_title_lower = T_registered_nurse

IsNurseTitle(job_title_lower) ==
    job_title_lower = T_nurse \/ job_title_lower = T_registered_nurse

\* the if/elif chain on job_title_lower: the branch taken, "none" when it falls through
SpecialBranch(job_title_lower) ==
    IF job_title_lower = T_project_manager THEN "project_manager"
    ELSE IF IsNurseTitle(job_title_lower) THEN "nurse"
    ELSE IF job_title_lower \in {T_retail_sales, T_retail_salesperson, T_sales_associate}
        THEN "retail_sales"
    ELSE IF job_title_lower \in {T_cook, T_chef, T_food_preparation} THEN "cook"
    ELSE IF job_title_lower \in {T_business_analyst, T_business_systems_analyst}
        THEN "business_analyst"
    ELSE IF job_title_lower \in {T_diagnosician, T_diagnoscian, T_medical_diagnostician}
        THEN "diagnosician"
    ELSE IF job_title_lower \in {T_ui_developer, T_ui_designer, T_user_interface_developer}
        THEN "ui_developer"
    ELSE IF job_title_lower \in {T_web_developer, T_web_programmer, T_website_developer}
        THEN "web_developer"
    ELSE IF job_title_lower \in {T_teacher, T_educator, T_instructor,
                                 T_elementary_school_teachers, T_elementary_teacher,
                                 T_middle_school_teachers, T_middle_school_teacher}
        THEN "teacher"
    ELSE IF job_title_lower \in {T_court_reporter, T_digital_court_reporter, T_stenographer}
        THEN "court_reporter"
    ELSE "none"

\* the record the branch returns
SpecialRecord(branch, job_title) ==
    CASE branch = "project_manager" -> get_project_manager_data
      [] branch = "nurse" -> NurseRecord
      [] branch = "retail_sales" -> get_retail_sales_data
      [] branch = "cook" -> get_cook_data
      [] branch = "business_analyst" -> get_business_analyst_data
      [] branch = "diagnosician" -> get_diagnosician_data
      [] branch = "ui_developer" -> get_ui_developer_data
      [] branch = "web_developer" -> get_web_developer_data
      [] branch = "teacher" -> get_teacher_data(job_title)
      [] branch = "court_reporter" -> get_court_reporter_data

\* the cache after the branch: get_diagnosician_data stores its record under three keys
SpecialCache(branch, record, cache_before) ==
    IF branch = "diagnosician"
    THEN [k \in DOMAIN cache_before \cup {T_diagnosician, T_diagnoscian, T_medical_diagnostician} |->
            IF k \in {T_diagnosician, T_diagnoscian, T_medical_diagnostician}
            THEN record ELSE cache_before[k]]
    ELSE cache_before

(***************************************************************************)
(* The external collaborators: every answer they can give to one call.     *)
(***************************************************************************)
BestMatch == [code |-> SOC_51_4121, title |-> T_Welders]
OtherMatch == [code |-> SOC_43_4051, title |-> T_Customer_Service_Representatives]

\* bls_connector.search_occupations: raises, no match, or a list of matches
SearchAnswers ==
    {Raised("search_occupations failed"), Returned(<<>>), Returned(<<BestMatch, OtherMatch>>)}

\* the job_titles query: raises, no row, or a row whose soc_code is NULL,
\* '00-0000' or a code
DatabaseAnswers ==
    {Raised("database lookup failed"), Returned(<<>>), Returned(<<[none |-> TRUE]>>),
     Returned(<<[str |-> SOC_00_0000]>>), Returned(<<[str |-> SOC_43_4051]>>)}

\* bls_connector.get_occupation_data
OccupationDataAnswers ==
    {Raised("get_occupation_data failed"),
     Returned([status |-> "success", latest_value |-> [str |-> "418200"], data |-> <<>>]),
     Returned([status |-> "success", latest_value |-> [str |-> "418200"], data |-> <<>>,
               employment_trend |-> [years |-> <<2023, 2024>>,
                                     employment |-> <<410000, 418200>>]])}

\* the numeric percent_change values the projection provider answers with (tenths)
ProviderPcts == {-200, 50}

\* bls_connector.get_employment_projection
ProjectionAnswers ==
    {Raised("get_employment_projection failed"), Returned(NoProjections), Returned(ProjectionWith([none |-> TRUE]))}
    \cup {Returned(ProjectionWith([num |-> n])) : n \in ProviderPcts}

(***************************************************************************)
(* get_employment_trend and get_internal_job_data                          *)
(***************************************************************************)
get_employment_trend(job_title, search_answer, occupation_answer) ==
    IF IsRaised(search_answer) THEN search_answer
    ELSE IF search_answer.returned = <<>>
    THEN Returned([status |-> "error", message |-> "No matching occupation found"])
    ELSE LET best_match == search_answer.returned[1]
         IN  IF /\ IsReturned(occupation_answer)
                /\ "employment_trend" \in DOMAIN occupation_answer.returned
             THEN Returned(occupation_answer.returned.employment_trend)
             ELSE Returned([error |-> "trend_data_unavailable",
                            job_title |-> best_match.title,
                            occupation_code |-> best_match.code])

\* every outcome of get_employment_trend
EmploymentTrends(job_title) ==
    {get_employment_trend(job_title, s, o) : s \in SearchAnswers, o \in OccupationDataAnswers}

\* the job category sniffed from the title
JobCategory(job_title) ==
    LET l == Lower(job_title)
    IN  IF AnyKeyword(l, KeywordsTechnology) THEN "Technology"
        ELSE IF AnyKeyword(l, KeywordsMarketingAndSales) THEN "Marketing & Sales"
        ELSE IF AnyKeyword(l, KeywordsFinance) THEN "Finance"
        ELSE IF AnyKeyword(l, KeywordsHumanResources) THEN "Human Resources"
        ELSE IF AnyKeyword(l, KeywordsEducation) THEN "Education"
        ELSE IF AnyKeyword(l, KeywordsHealthcare) THEN "Healthcare"
        ELSE "General"

\* the fixed risk levels, adjusted by job category
CategoryRisk(job_category) ==
    IF job_category = "Technology" THEN [year_1 |-> 150, year_5 |-> 350]
    ELSE IF job_category = "Healthcare" THEN [year_1 |-> 150, year_5 |-> 300]
    ELSE IF job_category = "Education" THEN [year_1 |-> 200, year_5 |-> 350]
    ELSE [year_1 |-> 250, year_5 |-> 450]

\* the record get_internal_job_data returns when get_employment_trend returned trend_data
InternalRecord(job_title, trend_data) ==
    LET job_category == JobCategory(job_title)
        risk == CategoryRisk(job_category)
    IN  [job_title |-> job_title,
         occupation_code |-> SOC_00_0000,
         job_category |-> job_category,
         source |-> "internal_database",
         latest_employment |-> [str |-> "Unknown"],
         automation_probability |-> 4500,
         risk_scores |-> risk,
         risk_category |-> "Moderate",
         projections |-> [percent_change |-> [str |-> "Unknown"],
                          annual_job_openings |-> [str |-> "Unknown"]],
         trend_data |-> trend_data,
         similar_jobs |->
            <<[job_title |-> T_Related_Position_1, occupation_code |-> SOC_00_0001,
               year_1_risk |-> Max(100, risk.year_1 - 100),
               year_5_risk |-> Max(200, risk.year_5 - 100),
               risk_category |-> "Low to Moderate"],
              [job_title |-> T_Related_Position_2, occupation_code |-> SOC_00_0002,
               year_1_risk |-> Min(350, risk.year_1 + 50),
               year_5_risk |-> Min(600, risk.year_5 + 100),
               risk_category |-> "Moderate to High"]>>]

\* every outcome of get_internal_job_data: the record, or the exception of
\* get_employment_trend
get_internal_job_data(job_title) ==
    {IF IsRaised(t) THEN t ELSE Returned(InternalRecord(job_title, t.returned)) :
        t \in EmploymentTrends(job_title)}

(***************************************************************************)
(* get_job_data.  A run of it is [outcome, cache, from_cache,              *)
(* classifier_calls]: what it returned or raised, the cache it leaves,     *)
(* whether the record came from the cache, and how often it invoked        *)
(* calculate_displacement_risk.                                            *)
(***************************************************************************)
Run(outcome, cache_before, from_cache, classifier_calls) ==
    [outcome |-> outcome, cache |-> cache_before, from_cache |-> from_cache,
     classifier_calls |-> classifier_calls, steps |-> <<>>]

\* The runs that follow one step of occupation resolution.  steps lists, in
\* order, what lines 785-822 consulted: the job_titles query, search_occupations
\* and get_internal_job_data, each with how it answered and the occupation it
\* named (code and title are empty where it named none).
Step(call, answer, code, title, runs) ==
    {[r EXCEPT !.steps = <<[call |-> call, answer |-> answer, code |-> code,
                            title |-> title]>> \o @] : r \in runs}

\* Steps 2 to 4 and the cache write, for the answers of the two providers
Assemble(job_title, cache_before, occ_code, standardized_title, occ_answer, proj_answer) ==
    IF IsRaised(occ_answer) THEN Run(occ_answer, cache_before, FALSE, 0)
    ELSE IF IsRaised(proj_answer) THEN Run(proj_answer, cache_before, FALSE, 0)
    ELSE
    LET occupation_data == occ_answer.returned
        projection_data == proj_answer.returned
        risk_data == calculate_displacement_risk(standardized_title, occ_code,
                                                 occupation_data, projection_data)
    IN  IF IsRaised(risk_data) THEN Run(risk_data, cache_before, FALSE, 1)
        ELSE
        LET result == [job_title |-> standardized_title,
                       occupation_code |-> occ_code,
                       source |-> "bls_api",
                       employment_data |-> Get(occupation_data, "data", <<>>),
                       latest_employment |-> Get(occupation_data, "latest_value",
                                                 [none |-> TRUE]),
                       projections |-> Get(projection_data, "projections", <<>>),
                       risk_analysis |-> risk_data.returned]
        IN  Run(Returned(result),
                [k \in DOMAIN cache_before \cup {Lower(job_title)} |->
                    IF k = Lower(job_title) THEN result ELSE cache_before[k]],
                FALSE, 1)

\* every run of steps 2 to 4 for a resolved occupation
Assemblies(job_title, cache_before, occ_code, standardized_title) ==
    {Assemble(job_title, cache_before, occ_code, standardized_title, o, p) :
        o \in OccupationDataAnswers, p \in ProjectionAnswers}

\* return get_internal_job_data(job_title): its record, or its exception
InternalRuns(job_title, cache_before) ==
    UNION {Step("get_internal_job_data", IF IsRaised(o) THEN "raised" ELSE "record",
                <<>>, <<>>, {Run(o, cache_before, FALSE, 0)})
           : o \in get_internal_job_data(job_title)}

\* the BLS search of the except branch and of the branch without a database:
\* an exception of search_occupations or of get_internal_job_data propagates
SearchRuns(job_title, cache_before) ==
    UNION {
        IF IsRaised(s)
        THEN Step("search_occupations", "raised", <<>>, <<>>,
                  {Run(s, cache_before, FALSE, 0)})
        ELSE IF s.returned = <<>>
        THEN Step("search_occupations", "no match", <<>>, <<>>,
                  InternalRuns(job_title, cache_before))
        ELSE Step("search_occupations", "matches", s.returned[1].code, s.returned[1].title,
                  Assemblies(job_title, cache_before, s.returned[1].code,
                             s.returned[1].title))
        : s \in SearchAnswers}

\* the soc_code of the fetched row, empty when there is no row or it is NULL
RowCode(row) ==
    IF row # <<>> /\ "str" \in DOMAIN row[1] THEN row[1].str ELSE <<>>

\* row and row[0] and row[0] != '00-0000', accepting the '00-0000' placeholder
RowHasCodeAny(row) ==
    /\ row # <<>>
    /\ "str" \in DOMAIN row[1]
    /\ row[1].str # <<>>

\* row and row[0] and row[0] != '00-0000'
RowHasCode(row) ==
    /\ row # <<>>
    /\ "str" \in DOMAIN row[1]
    /\ row[1].str # <<>>
    /\ row[1].str # SOC_00_0000

\* the branch with a database: whatever the try block raises is caught and
\* the BLS search is run again
DatabaseRuns(job_title, cache_before) ==
    UNION {
        IF IsRaised(d)
        THEN Step("job_titles", "raised", <<>>, <<>>, SearchRuns(job_title, cache_before))
        ELSE Step("job_titles", "answered", RowCode(d.returned), <<>>,
        IF RowHasCode(d.returned)
        THEN Assemblies(job_title, cache_before, d.returned[1].str, job_title)
        ELSE UNION {
            IF IsRaised(s)
            THEN Step("search_occupations", "raised", <<>>, <<>>,
                      SearchRuns(job_title, cache_before))
            ELSE IF s.returned = <<>>
            THEN Step("search_occupations", "no match", <<>>, <<>>,
                      UNION {IF IsRaised(o)
                             THEN Step("get_internal_job_data", "raised", <<>>, <<>>,
                                       SearchRuns(job_title, cache_before))
                             ELSE Step("get_internal_job_data", "record", <<>>, <<>>,
                                       {Run(o, cache_before, FALSE, 0)})
                             : o \in get_internal_job_data(job_title)})
            ELSE Step("search_occupations", "matches", s.returned[1].code,
                      s.returned[1].title,
                      Assemblies(job_title, cache_before, s.returned[1].code,
                                 s.returned[1].title))
            : s \in SearchAnswers})
        : d \in DatabaseAnswers}

\* every run of get_job_data(job_title) from the cache cache_before
get_job_data(job_title, cache_before) ==
    LET job_title_lower == Lower(job_title)
        branch == SpecialBranch(job_title_lower)
    IN  IF job_title_lower \in DOMAIN cache_before
        THEN {Run(Returned(cache_before[job_title_lower]), cache_before, TRUE, 0)}
        ELSE IF branch # "none"
        THEN LET record == SpecialRecord(branch, job_title)
             IN  {Run(Returned(record), SpecialCache(branch, record, cache_before), FALSE, 0)}
        ELSE UNION {IF database_url THEN DatabaseRuns(job_title, cache_before)
                    ELSE SearchRuns(job_title, cache_before)
                    : database_url \in BOOLEAN}

(***************************************************************************)
(* The classifier as a state machine: a call is pending with arguments     *)
(* drawn from the bounded input sets, the step applies the function.       *)
(***************************************************************************)
\* an occupation code "NN-NNNN" as a character sequence
OccCode(a, b, detail) == <<a, b, "-">> \o detail

RiskOccCodes ==
    { OccCode("4", "3", <<"4", "0", "5", "1">>),    \* administrative
      OccCode("1", "5", <<"1", "2", "5", "2">>),    \* computer
      OccCode("2", "9", <<"1", "1", "4", "1">>),    \* healthcare
      OccCode("5", "3", <<"3", "0", "3", "2">>),    \* transportation
      OccCode("1", "1", <<"3", "0", "2", "1">>),    \* management
      OccCode("2", "5", <<"2", "0", "2", "1">>),    \* education
      OccCode("4", "1", <<"2", "0", "3", "1">>),    \* sales
      OccCode("3", "5", <<"2", "0", "1", "4">>),    \* food preparation
      OccCode("5", "1", <<"4", "1", "2", "1">>),    \* production
      OccCode("1", "3", <<"2", "0", "1", "1">>),    \* no adjustment bucket
      OccCode("0", "0", <<"0", "0", "0", "0">>) }   \* no adjustment bucket


RiskProjectionDatas ==
    {NoProjections, [projections |-> <<>>],
     ProjectionWith([none |-> TRUE]), ProjectionWith([str |-> "Unknown"])}
    \cup {ProjectionWith([num |-> n]) : n \in (0 - MaxPct)..MaxPct}

RiskJobTitle == <<"W", "e", "l", "d", "e", "r", "s">>


\* Each component has its own variables; while one component runs, the
\* others stay as they are after import: no call made, nothing stored.
NoCall == [none |-> TRUE]
RiskIdle == risk_call = NoCall /\ risk_result = Pending
AssemblerIdle == job_cache = <<>> /\ ret = NoCall /\ calls = 0
InternalIdle == internal_call = NoCall /\ internal_result = Pending
HistoryIdle ==
    /\ database_import = "ok"
    /\ job_searches = <<>>
    /\ session_job_searches = <<>>
    /\ storage_file = [exists |-> FALSE, data |-> <<>>]
    /\ clock = 0
    /\ request = NoCall
    /\ recent = [called |-> FALSE, result |-> <<>>]
    /\ searches = 0
RaceIdle == race_pc = NoCall /\ race_local = NoCall
ProductionIdle ==
    last_data_refresh = NoCall /\ current_date = NoCall /\ refresh_happened = NoCall
RefreshIdle == last_refresh = NoCall /\ wall_clock = 0 /\ refresh_run = NoCall
AutocompleteIdle == autocomplete_call = NoCall /\ autocomplete_result = Pending

IdleOutsideRisk ==
    /\ AssemblerIdle /\ InternalIdle /\ HistoryIdle /\ RaceIdle /\ ProductionIdle /\ RefreshIdle
    /\ AutocompleteIdle
IdleOutsideAssembler ==
    /\ RiskIdle /\ InternalIdle /\ HistoryIdle /\ RaceIdle /\ ProductionIdle /\ RefreshIdle
    /\ AutocompleteIdle
IdleOutsideInternal ==
    /\ RiskIdle /\ AssemblerIdle /\ HistoryIdle /\ RaceIdle /\ ProductionIdle /\ RefreshIdle
    /\ AutocompleteIdle
IdleOutsideHistory ==
    /\ RiskIdle /\ AssemblerIdle /\ InternalIdle /\ RaceIdle /\ ProductionIdle /\ RefreshIdle
    /\ AutocompleteIdle
IdleOutsideRace ==
    /\ RiskIdle /\ InternalIdle /\ HistoryIdle /\ ProductionIdle /\ RefreshIdle
    /\ ret = NoCall /\ calls = 0
    /\ AutocompleteIdle
IdleOutsideProduction ==
    /\ RiskIdle /\ InternalIdle /\ HistoryIdle /\ RaceIdle /\ RefreshIdle
    /\ AutocompleteIdle
IdleOutsideRefresh ==
    /\ RiskIdle /\ AssemblerIdle /\ InternalIdle /\ HistoryIdle /\ RaceIdle /\ ProductionIdle
    /\ AutocompleteIdle
IdleOutsideAutocomplete ==
    /\ RiskIdle /\ AssemblerIdle /\ InternalIdle /\ HistoryIdle /\ RaceIdle
    /\ ProductionIdle /\ RefreshIdle

InitRisk ==
    /\ risk_call \in [job_title : {RiskJobTitle}, occ_code : RiskOccCodes,
                      occupation_data : {[status |-> "simplified"]},
                      projection_data : RiskProjectionDatas]
    /\ risk_result = Pending
    /\ IdleOutsideRisk

CalculateDisplacementRisk ==
    /\ risk_result = Pending
    /\ risk_result' = calculate_displacement_risk(risk_call.job_title, risk_call.occ_code,
                                                  risk_call.occupation_data,
                                                  risk_call.projection_data)
    /\ UNCHANGED risk_call
    /\ UNCHANGED outside_risk

NextRisk == CalculateDisplacementRisk

SpecRisk == InitRisk /\ [][NextRisk]_vars

(***************************************************************************)
(* The assembler as a state machine: callers (app.py, app_production.py,   *)
(* db_refresh.py) call get_job_data with a title; the collaborators'       *)
(* answers are chosen inside the call.                                     *)
(***************************************************************************)
SpecialTitles ==
    {T_project_manager, T_nurse, T_registered_nurse, T_retail_sales, T_retail_salesperson,
     T_sales_associate, T_cook, T_chef, T_food_preparation, T_business_analyst,
     T_business_systems_analyst, T_diagnosician, T_diagnoscian, T_medical_diagnostician,
     T_ui_developer, T_ui_designer, T_user_interface_developer, T_web_developer,
     T_web_programmer, T_website_developer, T_teacher, T_educator, T_instructor,
     T_elementary_school_teachers, T_elementary_teacher, T_middle_school_teachers,
     T_middle_school_teacher, T_court_reporter, T_digital_court_reporter, T_stenographer}

\* the titles callers pass
Titles ==
    SpecialTitles
    \cup {T_Nurse, T_Registered_Nurse, T_Project_Manager, T_Diagnosician}
    \cup {T_Welder, T_welder, T_Unknown_Job_XYZ}

Init ==
    /\ job_cache = <<>>
    /\ ret = NoCall
    /\ calls = 0
    /\ IdleOutsideAssembler

GetJobData(job_title) ==
    /\ calls < MaxCalls
    /\ \E run \in get_job_data(job_title, job_cache) :
        /\ job_cache' = run.cache
        /\ ret' = [job_title |-> job_title, outcome |-> run.outcome,
                   from_cache |-> run.from_cache,
                   classifier_calls |-> run.classifier_calls, steps |-> run.steps]
    /\ calls' = calls + 1
    /\ UNCHANGED outside_assembler

Next == \E job_title \in Titles : GetJobData(job_title)

Spec == Init /\ [][Next]_vars

\* The same machine for callers that type a title in several spellings:
\* other letter case, surrounding whitespace.
SpellingTitles ==
    {T_nurse, T_Nurse, T_nurse_padded, T_welder, T_Welder, T_welder_padded}

NextSpelling == \E job_title \in SpellingTitles : GetJobData(job_title)

SpecSpelling == Init /\ [][NextSpelling]_vars

(***************************************************************************)
(* get_internal_job_data as a state machine: a call is pending with a      *)
(* title, the step applies the function; what bls_connector answers to     *)
(* get_employment_trend is chosen inside the call.                         *)
(***************************************************************************)
InternalTitles ==
    Titles \cup {T_Software_Engineer, T_App_Development_Lead, T_Nurse_Practitioner,
                 T_Medical_Technician, T_Nursing_Instructor, T_Nursing_Aide, T_Paramedic}

InitInternal ==
    /\ internal_call \in [job_title : InternalTitles]
    /\ internal_result = Pending
    /\ IdleOutsideInternal

GetInternalJobData ==
    /\ internal_result = Pending
    /\ internal_result' \in get_internal_job_data(internal_call.job_title)
    /\ UNCHANGED internal_call
    /\ UNCHANGED outside_internal

NextInternal == GetInternalJobData

SpecInternal == InitInternal /\ [][NextInternal]_vars

(***************************************************************************)
(* The search history: database.py, db_fallback.py and their callers       *)
(* app.py and db_refresh.py.  A stored timestamp is [iso |-> t] as a       *)
(* string and [datetime |-> t] as a datetime; a float column is            *)
(* [num |-> n] in tenths, NULL is [none |-> TRUE].                         *)
(***************************************************************************)
\* existing_data[-100:]
StorageLimit == 100

\* the risk_data dict that app.py and db_refresh.py build from a job record
RiskData(job_data) ==
    [year_1_risk |-> [num |-> Get(Get(job_data, "risk_scores", <<>>), "year_1", 0)],
     year_5_risk |-> [num |-> Get(Get(job_data, "risk_scores", <<>>), "year_5", 0)],
     risk_category |-> [str |-> Get(job_data, "risk_category", "Unknown")],
     job_category |-> [str |-> Get(job_data, "job_category", "Unknown")]]

\* database.save_job_search without its try/except
database_save_job_search_unguarded(job_title, risk_data, rows, now, commit_ok) ==
    IF commit_ok
    THEN [outcome |-> Returned(TRUE),
          job_searches |-> Append(rows,
              [id |-> Len(rows) + 1,
               job_title |-> job_title,
               timestamp |-> [datetime |-> now],
               year_1_risk |-> Get(risk_data, "year_1", [none |-> TRUE]),
               year_5_risk |-> Get(risk_data, "year_5", [none |-> TRUE]),
               risk_category |-> Get(risk_data, "risk_level_5", [none |-> TRUE]),
               job_category |-> Get(risk_data, "job_category", [str |-> "unknown"])])]
    ELSE [outcome |-> Raised("job_searches write failed"), job_searches |-> rows]

\* database.save_job_search: the row is added and True returned, or the
\* session raises, the exception is printed and False returned
database_save_job_search(job_title, risk_data, rows, now, commit_ok) ==
    IF commit_ok
    THEN [outcome |-> Returned(TRUE),
          job_searches |-> Append(rows,
              [id |-> Len(rows) + 1,
               job_title |-> job_title,
               timestamp |-> [datetime |-> now],
               year_1_risk |-> Get(risk_data, "year_1", [none |-> TRUE]),
               year_5_risk |-> Get(risk_data, "year_5", [none |-> TRUE]),
               risk_category |-> Get(risk_data, "risk_level_5", [none |-> TRUE]),
               job_category |-> Get(risk_data, "job_category", [str |-> "unknown"])])]
    ELSE [outcome |-> Returned(FALSE), job_searches |-> rows]

\* the last n elements of a list: s[-n:]
LastN(s, n) == IF Len(s) <= n THEN s ELSE SubSeq(s, Len(s) - n + 1, Len(s))

\* the first n elements of a list: s[:n]
FirstN(s, n) == IF Len(s) <= n THEN s ELSE SubSeq(s, 1, n)

\* db_fallback.save_job_search with the in-memory append made after the file
\* was written, inside the same try
db_fallback_save_job_search_file_first(job_title, risk_data, memory, file, now, read_ok, write_ok) ==
    LET record == [job_title |-> job_title,
                   year_1_risk |-> Get(risk_data, "year_1_risk", [num |-> 0]),
                   year_5_risk |-> Get(risk_data, "year_5_risk", [num |-> 0]),
                   timestamp |-> [iso |-> now],
                   risk_category |-> Get(risk_data, "risk_category", [str |-> "Unknown"])]
        existing_data == IF file.exists /\ read_ok THEN file.data ELSE <<>>
    IN  [outcome |-> Returned(TRUE),
         session_job_searches |-> IF write_ok THEN Append(memory, record) ELSE memory,
         storage_file |-> IF write_ok
                          THEN [exists |-> TRUE,
                                data |-> LastN(Append(existing_data, record), StorageLimit)]
                          ELSE file]

\* db_fallback.save_job_search: the record goes to the in-memory list, then
\* to the file; reading and writing the file may fail, which is only printed
db_fallback_save_job_search(job_title, risk_data, memory, file, now, read_ok, write_ok) ==
    LET record == [job_title |-> job_title,
                   year_1_risk |-> Get(risk_data, "year_1_risk", [num |-> 0]),
                   year_5_risk |-> Get(risk_data, "year_5_risk", [num |-> 0]),
                   timestamp |-> [iso |-> now],
                   risk_category |-> Get(risk_data, "risk_category", [str |-> "Unknown"])]
        existing_data == IF file.exists /\ read_ok THEN file.data ELSE <<>>
    IN  [outcome |-> Returned(TRUE),
         session_job_searches |-> Append(memory, record),
         storage_file |-> IF write_ok
                          THEN [exists |-> TRUE,
                                data |-> LastN(Append(existing_data, record), StorageLimit)]
                          ELSE file]

\* list.sort(key=timestamp, reverse=True): stable, newest first
RECURSIVE InsertNewestFirst(_, _)
InsertNewestFirst(sorted, x) ==
    IF sorted = <<>> THEN <<x>>
    ELSE IF Head(sorted).timestamp.datetime < x.timestamp.datetime
    THEN <<x>> \o sorted
    ELSE <<Head(sorted)>> \o InsertNewestFirst(Tail(sorted), x)

RECURSIVE SortNewestFirst(_)
SortNewestFirst(s) ==
    IF s = <<>> THEN <<>>
    ELSE InsertNewestFirst(SortNewestFirst(SubSeq(s, 1, Len(s) - 1)), s[Len(s)])

\* database.get_recent_searches: the newest rows as dicts, or [] when the
\* query raises
database_get_recent_searches(limit, rows, query_ok) ==
    IF query_ok
    THEN LET recent_searches == FirstN(SortNewestFirst(rows), limit)
         IN  [i \in 1..Len(recent_searches) |->
                [job_title |-> recent_searches[i].job_title,
                 year_1_risk |-> recent_searches[i].year_1_risk,
                 year_5_risk |-> recent_searches[i].year_5_risk,
                 timestamp |-> recent_searches[i].timestamp,
                 risk_category |-> recent_searches[i].risk_category]]
    ELSE <<>>

\* the sample searches db_fallback shows when it has none
SampleSearches(now) ==
    <<[job_title |-> T_Software_Engineer, year_1_risk |-> [num |-> 325],
       year_5_risk |-> [num |-> 487], timestamp |-> [iso |-> now - 5],
       risk_category |-> [str |-> "Moderate"]],
      [job_title |-> T_Data_Scientist, year_1_risk |-> [num |-> 273],
       year_5_risk |-> [num |-> 421], timestamp |-> [iso |-> now - 12],
       risk_category |-> [str |-> "Moderate"]],
      [job_title |-> T_Teacher, year_1_risk |-> [num |-> 189],
       year_5_risk |-> [num |-> 356], timestamp |-> [iso |-> now - 18],
       risk_category |-> [str |-> "Moderate"]],
      [job_title |-> T_Nurse, year_1_risk |-> [num |-> 102],
       year_5_risk |-> [num |-> 248], timestamp |-> [iso |-> now - 25],
       risk_category |-> [str |-> "Low"]],
      [job_title |-> T_Truck_Driver, year_1_risk |-> [num |-> 653],
       year_5_risk |-> [num |-> 827], timestamp |-> [iso |-> now - 37],
       risk_category |-> [str |-> "High"]]>>

\* db_fallback.get_recent_searches without the sort of line 181
db_fallback_get_recent_searches_unsorted(limit, memory, file, now, read_ok) ==
    LET stored_searches == IF file.exists /\ read_ok THEN file.data ELSE <<>>
        combined == memory \o stored_searches
        combined_searches == IF combined = <<>> THEN SampleSearches(now) ELSE combined
        processed_searches ==
            [i \in 1..Len(combined_searches) |->
                [combined_searches[i] EXCEPT !.timestamp = [datetime |-> @.iso]]]
    IN  FirstN(processed_searches, limit)

\* db_fallback.get_recent_searches
db_fallback_get_recent_searches(limit, memory, file, now, read_ok) ==
    LET stored_searches == IF file.exists /\ read_ok THEN file.data ELSE <<>>
        combined == memory \o stored_searches
        combined_searches == IF combined = <<>> THEN SampleSearches(now) ELSE combined
        processed_searches ==
            [i \in 1..Len(combined_searches) |->
                [combined_searches[i] EXCEPT !.timestamp = [datetime |-> @.iso]]]
    IN  FirstN(SortNewestFirst(processed_searches), limit)

\* the titles searched for while the history is watched
HistoryTitles == {T_Nurse, T_Welder}

\* every way a lookup of the title can end
HistoryLookups == [t \in HistoryTitles |-> {r.outcome : r \in get_job_data(t, <<>>)}]

\* app.py lines 228-246: the cached lookup, the direct lookup when that gave
\* nothing, get_internal_job_data when the provider asks for BLS_API_KEY,
\* st.stop() on another ValueError; any other exception leaves the script
AppJobData(job_title) ==
    HistoryLookups[job_title] \cup get_internal_job_data(job_title) \cup {Raised("st.stop")}

\* the state after "from database import ..." of app.py and db_refresh.py:
\* it succeeds, database.py calls exit() because the engine does not
\* connect, or an import of database.py fails
InitHistory ==
    /\ database_import \in {"ok", "SystemExit", "ImportError"}
    /\ job_searches = <<>>
    /\ session_job_searches = <<>>
    /\ storage_file = [exists |-> FALSE, data |-> <<>>]
    /\ clock = 0
    /\ request = NoCall
    /\ recent = [called |-> FALSE, result |-> <<>>]
    /\ searches = 0
    /\ IdleOutsideHistory

\* app.py: database_available is True exactly when the import succeeded
\* (the bare except also catches SystemExit)
app_database_available == database_import = "ok"

\* app.py lines 225-255: "Analyze Job Risk" is clicked with a title
AppSearch(job_title) ==
    /\ searches < MaxSearches
    /\ \E found \in AppJobData(job_title), commit_ok \in BOOLEAN :
        LET saving == IsReturned(found) /\ app_database_available
            saved == database_save_job_search(job_title, RiskData(found.returned),
                                              job_searches, clock, commit_ok)
        IN  /\ job_searches' = IF saving THEN saved.job_searches ELSE job_searches
            /\ request' = [caller |-> "app.py", job_title |-> job_title,
                           job_data |-> found,
                           outcome |-> IF saving /\ IsRaised(saved.outcome)
                                       THEN saved.outcome ELSE found,
                           saved |-> IF saving THEN saved.outcome
                                     ELSE [skipped |-> TRUE]]
    /\ clock' = clock + 1
    /\ recent' = [called |-> FALSE, result |-> <<>>]
    /\ searches' = searches + 1
    /\ UNCHANGED <<database_import, session_job_searches, storage_file>>
    /\ UNCHANGED outside_history

\* db_refresh.update_job_data (lines 76-110), importable unless database.py
\* exits the interpreter (db_refresh catches Exception only)
UpdateJobData(job_title) ==
    /\ searches < MaxSearches
    /\ database_import # "SystemExit"
    /\ \E found \in HistoryLookups[job_title], commit_ok \in BOOLEAN :
        LET saving == IsReturned(found) /\ database_import = "ok"
            saved == database_save_job_search(job_title, RiskData(found.returned),
                                              job_searches, clock, commit_ok)
        IN  /\ job_searches' = IF saving THEN saved.job_searches ELSE job_searches
            /\ request' = [caller |-> "db_refresh.py", job_title |-> job_title,
                           job_data |-> found,
                           outcome |-> IF IsRaised(found)
                                       THEN Returned([error |-> found.raised])
                                       ELSE found,
                           saved |-> IF saving THEN saved.outcome
                                     ELSE [skipped |-> TRUE]]
    /\ clock' = clock + 1
    /\ recent' = [called |-> FALSE, result |-> <<>>]
    /\ searches' = searches + 1
    /\ UNCHANGED <<database_import, session_job_searches, storage_file>>
    /\ UNCHANGED outside_history

\* db_fallback.save_job_search called with the record of a lookup (the
\* name save_job_search is db_fallback's once the database import failed)
SaveJobSearchLocally(job_title) ==
    /\ searches < MaxSearches
    /\ database_import # "ok"
    /\ \E found \in {o \in HistoryLookups[job_title] : IsReturned(o)},
          read_ok \in BOOLEAN, write_ok \in BOOLEAN :
        LET saved == db_fallback_save_job_search(job_title, RiskData(found.returned),
                                                 session_job_searches, storage_file,
                                                 clock, read_ok, write_ok)
        IN  /\ session_job_searches' = saved.session_job_searches
            /\ storage_file' = saved.storage_file
            /\ request' = [caller |-> "db_fallback", job_title |-> job_title,
                           job_data |-> found, outcome |-> found,
                           saved |-> saved.outcome]
    /\ clock' = clock + 1
    /\ recent' = [called |-> FALSE, result |-> <<>>]
    /\ searches' = searches + 1
    /\ UNCHANGED <<database_import, job_searches>>
    /\ UNCHANGED outside_history

\* app.py line 641: the sidebar asks for the recent searches
AppRecentSearches ==
    /\ searches < MaxSearches
    /\ \E ok \in BOOLEAN :
        recent' = [called |-> TRUE,
                   result |-> IF app_database_available
                              THEN database_get_recent_searches(5, job_searches, ok)
                              ELSE db_fallback_get_recent_searches(
                                       5, session_job_searches, storage_file, clock, ok)]
    /\ clock' = clock + 1
    /\ searches' = searches + 1
    /\ UNCHANGED <<database_import, job_searches, session_job_searches, storage_file,
                   request>>
    /\ UNCHANGED outside_history

NextHistory ==
    \/ \E job_title \in HistoryTitles : AppSearch(job_title)
    \/ \E job_title \in HistoryTitles : UpdateJobData(job_title)
    \/ \E job_title \in HistoryTitles : SaveJobSearchLocally(job_title)
    \/ AppRecentSearches

SpecHistory == InitHistory /\ [][NextHistory]_vars

(***************************************************************************)
(* db_fallback.py on its own: the module's two functions called in any     *)
(* order by a process whose database import failed, and restarts of that   *)
(* process, which empty session_job_searches and keep the storage file.    *)
(***************************************************************************)
\* the limits get_recent_searches is called with: 5 by app.py (line 641),
\* 10 by default, and two that cut a short history
RecentLimits == {1, 2, 5, 10}

InitFallback ==
    /\ InitHistory
    /\ database_import # "ok"

\* db_fallback.get_recent_searches(limit)
FallbackRecentSearches(limit) ==
    /\ searches < MaxSearches
    /\ \E read_ok \in BOOLEAN :
        recent' = [called |-> TRUE,
                   result |-> db_fallback_get_recent_searches(
                                  limit, session_job_searches, storage_file, clock, read_ok),
                   limit |-> limit,
                   read_ok |-> read_ok]
    /\ clock' = clock + 1
    /\ searches' = searches + 1
    /\ UNCHANGED <<database_import, job_searches, session_job_searches, storage_file,
                   request>>
    /\ UNCHANGED outside_history

\* the process ends and a new one imports db_fallback (line 10)
FallbackRestart ==
    /\ searches < MaxSearches
    /\ session_job_searches # <<>>
    /\ session_job_searches' = <<>>
    /\ request' = NoCall
    /\ recent' = [called |-> FALSE, result |-> <<>>]
    /\ clock' = clock + 1
    /\ searches' = searches + 1
    /\ UNCHANGED <<database_import, job_searches, storage_file>>
    /\ UNCHANGED outside_history

NextFallback ==
    \/ \E job_title \in HistoryTitles : SaveJobSearchLocally(job_title)
    \/ \E limit \in RecentLimits : FallbackRecentSearches(limit)
    \/ FallbackRestart

SpecFallback == InitFallback /\ [][NextFallback]_vars

(***************************************************************************)
(* Two threads of one process in get_job_data with the same title: the     *)
(* script run that performs the daily refresh (check_data_refresh calls    *)
(* db_refresh.update_job_data) and the script run of a user's request.     *)
(* They share _job_cache; a thread can be preempted between the cache      *)
(* test of line 659 and the cache write of line 850.                       *)
(***************************************************************************)
Threads == {"refresh job", "live request"}

RaceTitle == T_Welder

InitRace ==
    /\ race_pc = [t \in Threads |-> "check"]
    /\ race_local = [t \in Threads |-> NoCall]
    /\ job_cache = <<>>
    /\ IdleOutsideRace

\* lines 659-660: the cache test, and the return of the cached record
RaceCheckCache(t) ==
    /\ race_pc[t] = "check"
    /\ IF Lower(RaceTitle) \in DOMAIN job_cache
       THEN /\ race_local' = [race_local EXCEPT ![t] = Returned(job_cache[Lower(RaceTitle)])]
            /\ race_pc' = [race_pc EXCEPT ![t] = "done"]
       ELSE /\ race_pc' = [race_pc EXCEPT ![t] = "resolve"]
            /\ UNCHANGED race_local
    /\ UNCHANGED job_cache
    /\ UNCHANGED outside_race

\* lines 662-847: the special titles, resolution, the providers and the
\* classifier, up to the record that line 850 is about to store
RaceAssemble(t) ==
    /\ race_pc[t] = "resolve"
    /\ \E run \in get_job_data(RaceTitle, <<>>) :
        /\ race_local' = [race_local EXCEPT ![t] = run.outcome]
        /\ race_pc' = [race_pc EXCEPT ![t] =
                         IF Lower(RaceTitle) \in DOMAIN run.cache THEN "write" ELSE "done"]
    /\ UNCHANGED job_cache
    /\ UNCHANGED outside_race

\* lines 850-852: the cache write and the return
RaceWriteCache(t) ==
    /\ race_pc[t] = "write"
    /\ job_cache' = [k \in DOMAIN job_cache \cup {Lower(RaceTitle)} |->
                        IF k = Lower(RaceTitle) THEN race_local[t].returned
                        ELSE job_cache[k]]
    /\ race_pc' = [race_pc EXCEPT ![t] = "done"]
    /\ UNCHANGED race_local
    /\ UNCHANGED outside_race

NextRace ==
    \E t \in Threads :
        \/ RaceCheckCache(t)
        \/ RaceAssemble(t)
        \/ RaceWriteCache(t)

SpecRace == InitRace /\ [][NextRace]_vars

(***************************************************************************)
(* app_production.py: every script run initialises the session's           *)
(* last_data_refresh, calls check_data_refresh (monthly schedule) and,     *)
(* when a job is to be analysed, get_job_data.  Dates are [year, month]:   *)
(* the day of "%Y-%m-%d" is never inspected.                               *)
(***************************************************************************)
\* current_date.year > last_refresh.year or (same year and later month)
MonthLater(current, last) ==
    \/ current.year > last.year
    \/ (current.year = last.year /\ current.month > last.month)

\* check_data_refresh emptying the cache on every call
production_check_data_refresh_always(session_date, today, cache) ==
    IF session_date = NoCall
    THEN [returned |-> FALSE, cache |-> cache, last_data_refresh |-> session_date]
    ELSE [returned |-> TRUE, cache |-> <<>>, last_data_refresh |-> today]

\* app_production.check_data_refresh (lines 18-36)
production_check_data_refresh(session_date, today, cache) ==
    IF session_date = NoCall
    THEN [returned |-> FALSE, cache |-> cache, last_data_refresh |-> session_date]
    ELSE IF MonthLater(today, session_date)
    THEN [returned |-> TRUE, cache |-> <<>>, last_data_refresh |-> today]
    ELSE [returned |-> FALSE, cache |-> cache, last_data_refresh |-> session_date]

ProductionTitles == {T_Welder, T_Diagnosician}

FirstDate == [year |-> 2025, month |-> 11]

\* the months elapsed since FirstDate
MonthsSince(date) == (date.year - FirstDate.year) * 12 + date.month - FirstDate.month

InitProduction ==
    /\ last_data_refresh = NoCall
    /\ current_date = FirstDate
    /\ refresh_happened = NoCall
    /\ job_cache = <<>>
    /\ ret = NoCall
    /\ calls = 0
    /\ IdleOutsideProduction

\* the calendar moves on to the next month
MonthPasses ==
    /\ MonthsSince(current_date) < MaxMonths
    /\ current_date' = IF current_date.month = 12
                       THEN [year |-> current_date.year + 1, month |-> 1]
                       ELSE [current_date EXCEPT !.month = @ + 1]
    /\ UNCHANGED <<last_data_refresh, refresh_happened, assembler_vars>>
    /\ UNCHANGED outside_production

\* lines 13-15 and 38: what every script run does first
ProductionStartup ==
    LET session_date == IF last_data_refresh = NoCall THEN current_date
                        ELSE last_data_refresh
    IN  production_check_data_refresh(session_date, current_date, job_cache)

\* line 38: refresh_happened = check_data_refresh(), kept with what the call
\* found in the session and what it did to the cache
RefreshHappened(session_date, call) ==
    [returned |-> call.returned, session_date |-> session_date, today |-> current_date,
     cache_was_filled |-> job_cache # <<>>,
     cache_emptied |-> call.cache = <<>>,
     cache_unchanged |-> call.cache = job_cache,
     last_data_refresh |-> call.last_data_refresh]

\* st.session_state.last_data_refresh when line 38 is reached
SessionDate == IF last_data_refresh = NoCall THEN current_date ELSE last_data_refresh

\* a script run that analyses no job
ProductionRerun ==
    /\ job_cache' = ProductionStartup.cache
    /\ last_data_refresh' = ProductionStartup.last_data_refresh
    /\ refresh_happened' = RefreshHappened(SessionDate, ProductionStartup)
    /\ UNCHANGED <<current_date, ret, calls>>
    /\ UNCHANGED outside_production

\* a script run with "Analyze" clicked: line 179 calls get_job_data
ProductionAnalyze(job_title) ==
    /\ calls < MaxCalls
    /\ last_data_refresh' = ProductionStartup.last_data_refresh
    /\ refresh_happened' = RefreshHappened(SessionDate, ProductionStartup)
    /\ \E run \in get_job_data(job_title, ProductionStartup.cache) :
        /\ job_cache' = run.cache
        /\ ret' = [job_title |-> job_title, outcome |-> run.outcome,
                   from_cache |-> run.from_cache,
                   classifier_calls |-> run.classifier_calls, steps |-> run.steps]
    /\ calls' = calls + 1
    /\ UNCHANGED current_date
    /\ UNCHANGED outside_production

\* "Clear Entry": st.session_state.clear() and st.rerun(); the rerun
\* initialises last_data_refresh again
ProductionClearEntry ==
    /\ last_data_refresh' = current_date
    /\ refresh_happened' =
          RefreshHappened(current_date,
              production_check_data_refresh(current_date, current_date, job_cache))
    /\ UNCHANGED <<current_date, assembler_vars>>
    /\ UNCHANGED outside_production

NextProduction ==
    \/ MonthPasses
    \/ ProductionClearEntry
    \/ ProductionRerun
    \/ \E job_title \in ProductionTitles : ProductionAnalyze(job_title)

SpecProduction == InitProduction /\ [][NextProduction]_vars

(***************************************************************************)
(* app.py: check_data_refresh, called by every script run (line 227).      *)
(* Times are hours; last_refresh.json is absent, unparsable, or holds the  *)
(* date written last.                                                      *)
(***************************************************************************)
\* timedelta.days counts whole days of 24 hours
HoursPerDay == 24

\* (datetime.datetime.now() - last_refresh).days
DaysSince(current, last) ==
    IF current >= last THEN (current - last) \div HoursPerDay
    ELSE 0 - (((last - current) + HoursPerDay - 1) \div HoursPerDay)

ValidFile(date) == [state |-> "valid", date |-> date]
AbsentFile == [state |-> "absent", date |-> 0]
InvalidFile == [state |-> "invalid", date |-> 0]

\* a write of {"date": now} to last_refresh.json: done, or the open fails
\* and the file stays as it is
WriteTimestamp(file, current, write_ok) ==
    IF write_ok THEN ValidFile(current) ELSE file

\* app.check_data_refresh (lines 146-175).  import_outcome is how
\* "import db_refresh" and the steps before the timestamp end: "ok", an
\* exception (caught, st.warning), or the SystemExit of database.py (not an
\* Exception: it leaves the function).  ran tells whether the branch of the
\* daily refresh was entered.
check_data_refresh(file, current, import_outcome, write_ok) ==
    IF file.state = "valid"
    THEN IF DaysSince(current, file.date) >= 1
         THEN [ran |-> TRUE,
               returned |-> IF import_outcome = "SystemExit" THEN "raised" ELSE "True",
               last_refresh |-> IF import_outcome = "ok"
                                THEN WriteTimestamp(file, current, write_ok)
                                ELSE file]
         ELSE [ran |-> FALSE, returned |-> "False", last_refresh |-> file]
    ELSE [ran |-> FALSE,
          returned |-> IF write_ok THEN "True" ELSE "raised",
          last_refresh |-> WriteTimestamp(file, current, write_ok)]

NeverRan == 0 - 1

InitRefresh ==
    /\ last_refresh \in {AbsentFile, InvalidFile, ValidFile(0)}
    /\ wall_clock = 0
    /\ refresh_run = [returned |-> "none", ran_at |-> NeverRan, ran_before_at |-> NeverRan]
    /\ IdleOutsideRefresh

HourPasses ==
    /\ wall_clock < MaxHours
    /\ wall_clock' = wall_clock + 1
    /\ UNCHANGED <<last_refresh, refresh_run>>
    /\ UNCHANGED outside_refresh

\* a script run reaches line 227
CheckDataRefresh ==
    /\ \E import_outcome \in {"ok", "Exception", "SystemExit"}, write_ok \in BOOLEAN :
        LET call == check_data_refresh(last_refresh, wall_clock, import_outcome, write_ok)
        IN  /\ last_refresh' = call.last_refresh
            /\ refresh_run' =
                  [returned |-> call.returned,
                   ran_at |-> IF call.ran THEN wall_clock ELSE refresh_run.ran_at,
                   ran_before_at |-> IF call.ran THEN refresh_run.ran_at
                                     ELSE refresh_run.ran_before_at]
    /\ UNCHANGED wall_clock
    /\ UNCHANGED outside_refresh

NextRefresh ==
    \/ HourPasses
    \/ CheckDataRefresh

SpecRefresh == InitRefresh /\ [][NextRefresh]_vars

(***************************************************************************)
(* job_title_autocomplete.py: search_job_titles over the list that         *)
(* load_job_titles_from_db returns (rows of job_titles, or the fallback    *)
(* list), in any order; no two rows are equal (add_high_risk_jobs.py       *)
(* inserts a (soc_code, title) only when the table has none).              *)
(***************************************************************************)
\* s.startswith(prefix)
StartsWith(s, prefix) ==
    Len(prefix) <= Len(s) /\ SubSeq(s, 1, Len(prefix)) = prefix

Q_urs == <<"u", "r", "s">>
Q_NURSE == <<"N", "U", "R", "S", "E">>

\* the rows the table is filled from
TitleRows ==
    {[title |-> T_Registered_Nurse, soc_code |-> SOC_29_1141, is_primary |-> TRUE],
     [title |-> T_Nurse, soc_code |-> SOC_29_1141, is_primary |-> FALSE],
     [title |-> T_nurse, soc_code |-> SOC_29_1141, is_primary |-> TRUE],
     [title |-> T_Nurse_Practitioner, soc_code |-> SOC_29_1141, is_primary |-> FALSE]}

\* every list of at most MaxTitles different rows
TitleLists ==
    {l \in UNION {[1..n -> TitleRows] : n \in 0..MaxTitles} :
        \A i \in 1..Len(l) : \A j \in 1..Len(l) : l[i] = l[j] => i = j}

Queries == {<<>>, T_nurse, Q_NURSE, K_nurs, Q_urs, T_Teacher}

Limits == {0, 1, 2, 10}

\* x in list
InList(x, list) == \E i \in 1..Len(list) : list[i] = x

\* search_job_titles that does not leave the earlier matches out of the later
\* lists
search_job_titles_unfiltered(job_titles, query, limit) ==
    IF query = <<>>
    THEN LET IsPrimary(job) == Get(job, "is_primary", FALSE)
         IN  FirstN(SelectSeq(job_titles, IsPrimary), limit)
    ELSE LET query_lower == Lower(query)
             IsExact(job) == Lower(job.title) = query_lower
             exact_matches == SelectSeq(job_titles, IsExact)
             IsStart(job) == StartsWith(Lower(job.title), query_lower)
             starts_with_matches == SelectSeq(job_titles, IsStart)
             IsInside(job) == Contains(Lower(job.title), query_lower)
             contains_matches == SelectSeq(job_titles, IsInside)
         IN  FirstN(exact_matches \o starts_with_matches \o contains_matches, limit)

\* search_job_titles(query, limit), lines 92-132
search_job_titles(job_titles, query, limit) ==
    IF query = <<>>
    THEN LET IsPrimary(job) == Get(job, "is_primary", FALSE)
         IN  FirstN(SelectSeq(job_titles, IsPrimary), limit)
    ELSE LET query_lower == Lower(query)
             IsExact(job) == Lower(job.title) = query_lower
             exact_matches == SelectSeq(job_titles, IsExact)
             IsStart(job) ==
                 /\ StartsWith(Lower(job.title), query_lower)
                 /\ ~InList(job, exact_matches)
             starts_with_matches == SelectSeq(job_titles, IsStart)
             IsInside(job) ==
                 /\ Contains(Lower(job.title), query_lower)
                 /\ ~InList(job, exact_matches)
                 /\ ~InList(job, starts_with_matches)
             contains_matches == SelectSeq(job_titles, IsInside)
         IN  FirstN(exact_matches \o starts_with_matches \o contains_matches, limit)

\* a call of search_job_titles is pending: by the autocomplete field (line
\* 173, default limit) or by a caller that passes its own limit
InitAutocomplete ==
    /\ autocomplete_call \in [job_titles : TitleLists, query : Queries, limit : Limits]
    /\ autocomplete_result = Pending
    /\ IdleOutsideAutocomplete

SearchJobTitles ==
    /\ autocomplete_result = Pending
    /\ autocomplete_result' =
          Returned(search_job_titles(autocomplete_call.job_titles, autocomplete_call.query,
                                     autocomplete_call.limit))
    /\ UNCHANGED autocomplete_call
    /\ UNCHANGED outside_autocomplete

NextAutocomplete == SearchJobTitles

SpecAutocomplete == InitAutocomplete /\ [][NextAutocomplete]_vars

(***************************************************************************)
(* Properties of the classifier                                            *)
(***************************************************************************)
RiskDone == IsReturned(risk_result)
RiskRec == risk_result.returned
\* the numeric percent_change of the pending call, where it has one
CallPct == risk_call.projection_data.projections.percent_change.num
CallHasPct ==
    /\ "projections" \in DOMAIN risk_call.projection_data
    /\ "percent_change" \in DOMAIN risk_call.projection_data.projections
    /\ "num" \in DOMAIN risk_call.projection_data.projections.percent_change
\* the first two digits of the occupation code of the pending call
CallPrefix == <<risk_call.occ_code[1], risk_call.occ_code[2]>>
AdjustedPrefixes ==
    {<<"4", "3">>, <<"1", "5">>, <<"2", "9">>, <<"5", "3">>, <<"1", "1">>,
     <<"2", "5">>, <<"4", "1">>, <<"3", "5">>, <<"5", "1">>}

\* C1: every record returned by calculate_displacement_risk has
\* year_5_risk at least 5 points above year_1_risk.
C1_Year5AtLeastYear1Plus5 ==
    RiskDone => RiskRec.year_5_risk >= RiskRec.year_1_risk + 50

\* C1 witness: a record returned for a group that lowers year_5_risk more
\* than year_1_risk (healthcare), at the narrowest base bucket.
C1_Witness ==
    /\ RiskDone /\ CallHasPct /\ CallPct > 100
    /\ CallPrefix = <<"2", "9">>
    /\ RiskRec.year_1_risk = 50 /\ RiskRec.year_5_risk = 150

\* C2: every record returned by calculate_displacement_risk has
\* year_1_risk in [5,95] and year_5_risk in [10,95].
C2_RisksWithinBounds ==
    RiskDone =>
        /\ RiskRec.year_1_risk >= 50 /\ RiskRec.year_1_risk <= 950
        /\ RiskRec.year_5_risk >= 100 /\ RiskRec.year_5_risk <= 950

\* C2 witness: the clamp acts (production group, steep decline: 90 + 18 is cut to 95).
C2_Witness ==
    /\ RiskDone /\ CallHasPct /\ CallPct <= -200
    /\ CallPrefix = <<"5", "1">>
    /\ RiskRec.year_1_risk = 720 /\ RiskRec.year_5_risk = 950

\* C5 as claimed: a call whose percent_change is absent or malformed returns
\* the record that percent_change = 0 gives, and never raises.
C5_MalformedTreatedAsZero ==
    (risk_result # Pending /\ ~CallHasPct) =>
        risk_result = calculate_displacement_risk(risk_call.job_title, risk_call.occ_code,
                                                  risk_call.occupation_data,
                                                  ProjectionWith([num |-> 0]))

\* The growth table of the classifier as the specification states it
\* (percent_change in tenths, risks in tenths).
TableYear1(x) ==
    IF x <= -200 THEN 600 ELSE IF x <= -100 THEN 400 ELSE IF x <= 0 THEN 250
    ELSE IF x <= 100 THEN 150 ELSE 100
TableYear5(x) ==
    IF x <= -200 THEN 900 ELSE IF x <= -100 THEN 750 ELSE IF x <= 0 THEN 500
    ELSE IF x <= 100 THEN 350 ELSE 250
TableCategory(x) ==
    IF x <= -200 THEN "Very High" ELSE IF x <= -100 THEN "High" ELSE IF x <= 0 THEN "Moderate"
    ELSE IF x <= 100 THEN "Moderate" ELSE "Low"

\* C7 as claimed: percent_change <= -20 gives "Very High" and year_5_risk >= 85
\* for every occupation group.
C7_SteepDeclineYear5AtLeast85 ==
    (RiskDone /\ CallHasPct /\ CallPct <= -200) =>
        /\ RiskRec.risk_category = "Very High"
        /\ RiskRec.year_5_risk >= 850

\* C7 amended: percent_change <= -20 gives "Very High" for every group, and
\* year_5_risk >= 85 for every group but management (60), healthcare (80)
\* and education (83).
C7_SteepDeclineAmended ==
    (RiskDone /\ CallHasPct /\ CallPct <= -200) =>
        /\ RiskRec.risk_category = "Very High"
        /\ CallPrefix = <<"1", "1">> => RiskRec.year_5_risk = 600
        /\ CallPrefix = <<"2", "9">> => RiskRec.year_5_risk = 800
        /\ CallPrefix = <<"2", "5">> => RiskRec.year_5_risk = 830
        /\ CallPrefix \notin {<<"1", "1">>, <<"2", "9">>, <<"2", "5">>}
              => RiskRec.year_5_risk >= 850

\* C7 witness: the boundary value -20 itself, classified for a group that
\* lowers the base value (education).
C7_Witness ==
    /\ RiskDone /\ CallHasPct /\ CallPct = -200
    /\ CallPrefix = <<"2", "5">>
    /\ RiskRec.risk_category = "Very High"

\* C8: for SOC prefix 11 the classifier returns 35.0 / 60.0 whatever the
\* percent_change.
C8_ManagementOverwrites ==
    (RiskDone /\ CallPrefix = <<"1", "1">>) =>
        /\ RiskRec.year_1_risk = 350
        /\ RiskRec.year_5_risk = 600

\* C8 witness: a management code classified from a base bucket other than
\* the one whose values a delta could mimic.
C8_Witness ==
    /\ RiskDone /\ CallHasPct /\ CallPct <= -200
    /\ CallPrefix = <<"1", "1">>
    /\ RiskRec.risk_category = "Very High"
    /\ RiskRec.year_1_risk = 350

\* C9: for a code in no adjustment bucket the classifier returns exactly the
\* values of the growth table, a boundary value belonging to the more severe
\* bucket, with one narrative factor in risk_factors (decline) or in
\* protective_factors (growth) and none in the other list.
C9_DefaultGroupKeepsBaseBucket ==
    (RiskDone /\ CallHasPct /\ CallPrefix \notin AdjustedPrefixes) =>
        /\ RiskRec.year_1_risk = TableYear1(CallPct)
        /\ RiskRec.year_5_risk = TableYear5(CallPct)
        /\ RiskRec.risk_category = TableCategory(CallPct)
        /\ CallPct <= 0 => Len(RiskRec.risk_factors) = 1
                           /\ Len(RiskRec.protective_factors) = 0
        /\ CallPct > 0 => Len(RiskRec.risk_factors) = 0
                          /\ Len(RiskRec.protective_factors) = 1

\* C9 witness: the boundary value -10 classified as "High" for a code in no
\* adjustment bucket.
C9_Witness ==
    /\ RiskDone /\ CallHasPct /\ CallPct = -100
    /\ CallPrefix \notin AdjustedPrefixes
    /\ RiskRec.risk_category = "High" /\ RiskRec.year_1_risk = 400

\* C10: for SOC prefix 43 the classifier returns the table's year_1 + 10 and
\* year_5 + 15, cut to the bounds, with automation_probability 0.75;
\* percent_change = 5 gives 25 / 50.
C10_AdministrativeDelta ==
    (RiskDone /\ CallHasPct /\ CallPrefix = <<"4", "3">>) =>
        /\ RiskRec.year_1_risk = Max(50, Min(950, TableYear1(CallPct) + 100))
        /\ RiskRec.year_5_risk = Max(100, Min(950, TableYear5(CallPct) + 150))
        /\ RiskRec.automation_probability = 75
        /\ CallPct = 50 => RiskRec.year_1_risk = 250 /\ RiskRec.year_5_risk = 500

\* C10 witness: the scenario of the specification, code 43-XXXX with
\* percent_change = 5.
C10_Witness ==
    /\ RiskDone /\ CallHasPct /\ CallPct = 50
    /\ CallPrefix = <<"4", "3">>
    /\ RiskRec.year_5_risk = 500

(***************************************************************************)
(* Properties of the assembler                                             *)
(***************************************************************************)
Called == calls > 0
RetRecord == ret.outcome.returned

\* C3 as claimed: a call of get_job_data that follows a call with a title equal
\* after case-folding returns the record the first call returned, whatever
\* the database and the BLS provider answer in between.
C3_SecondCallReturnsSameRecord ==
    [][(/\ calls > 0
        /\ calls' = calls + 1
        /\ IsReturned(ret.outcome)
        /\ Lower(ret'.job_title) = Lower(ret.job_title))
       => ret'.outcome = ret.outcome]_vars

\* C6 as claimed: get_job_data is total, no exception raised by the database
\* lookup, by search_occupations, by get_occupation_data or by
\* get_employment_projection reaches its caller.
C6_NoCollaboratorExceptionPropagates ==
    (Called /\ IsRaised(ret.outcome)) =>
        ret.outcome.raised \notin {"database lookup failed", "search_occupations failed",
                                   "get_occupation_data failed",
                                   "get_employment_projection failed"}

\* The hand-authored record of each special title (lower-cased)
C4_Override(l) ==
    IF l = T_project_manager THEN get_project_manager_data
    ELSE IF l \in {T_nurse, T_registered_nurse} THEN NurseRecord
    ELSE IF l \in {T_retail_sales, T_retail_salesperson, T_sales_associate}
        THEN get_retail_sales_data
    ELSE IF l \in {T_cook, T_chef, T_food_preparation} THEN get_cook_data
    ELSE IF l \in {T_business_analyst, T_business_systems_analyst}
        THEN get_business_analyst_data
    ELSE IF l \in {T_diagnosician, T_diagnoscian, T_medical_diagnostician}
        THEN get_diagnosician_data
    ELSE IF l \in {T_ui_developer, T_ui_designer, T_user_interface_developer}
        THEN get_ui_developer_data
    ELSE IF l \in {T_web_developer, T_web_programmer, T_website_developer}
        THEN get_web_developer_data
    ELSE IF l \in {T_middle_school_teachers, T_middle_school_teacher}
        THEN get_teacher_data(T_middle_school_teacher)
    ELSE IF l \in {T_teacher, T_educator, T_instructor, T_elementary_school_teachers,
                   T_elementary_teacher}
        THEN get_teacher_data(T_teacher)
    ELSE get_court_reporter_data

\* C4: for a title of the special-case set, compared case-insensitively,
\* get_job_data returns the hand-authored record of that title and does not
\* invoke calculate_displacement_risk; for "nurse" and "registered nurse" the
\* risk values are 15.0 / 30.0 and the category "Low to Moderate", after any
\* earlier calls and whatever the providers would answer.
C4_SpecialTitlesGetOverride ==
    (Called /\ Lower(ret.job_title) \in SpecialTitles) =>
        /\ IsReturned(ret.outcome)
        /\ ret.classifier_calls = 0
        /\ RetRecord = C4_Override(Lower(ret.job_title))
        /\ Lower(ret.job_title) \in {T_nurse, T_registered_nurse} =>
              /\ RetRecord.risk_scores = [year_1 |-> 150, year_5 |-> 300]
              /\ RetRecord.risk_category = "Low to Moderate"

\* C4 witness: "Nurse" is looked up after earlier calls have filled the cache.
C4_Witness ==
    /\ calls >= 2
    /\ DOMAIN job_cache # {}
    /\ ret.job_title = T_Nurse
    /\ IsReturned(ret.outcome)
    /\ RetRecord.risk_scores.year_1 = 150

(***************************************************************************)
(* Occupation resolution (lines 785-822)                                   *)
(***************************************************************************)
\* the job_titles query named an occupation: a code other than the placeholder
C11_YieldsCode(step) ==
    /\ step.call = "job_titles"
    /\ step.code # <<>>
    /\ step.code # SOC_00_0000

\* C11: occupation resolution tries its steps in order and the first success
\* wins.  The job_titles lookup comes first; when it yields a code, nothing
\* else is consulted and a returned record carries that code; when it yields
\* none, search_occupations is consulted next and a returned record of a
\* search with matches carries the first match's code and title;
\* get_internal_job_data is called only straight after a search that returned
\* no match, and a generic record is returned only by that call.
C11_FirstSuccessWins ==
    Called =>
        LET s == ret.steps
        IN  /\ \A i \in 1..Len(s) :
                /\ s[i].call = "job_titles" => i = 1
                /\ C11_YieldsCode(s[i]) =>
                      /\ Len(s) = 1
                      /\ IsReturned(ret.outcome) =>
                            /\ RetRecord.occupation_code = s[i].code
                            /\ RetRecord.source = "bls_api"
                /\ (s[i].call = "job_titles" /\ ~C11_YieldsCode(s[i])) =>
                      /\ Len(s) > 1
                      /\ s[2].call = "search_occupations"
                /\ (s[i].call = "search_occupations" /\ s[i].answer = "matches") =>
                      /\ i = Len(s)
                      /\ IsReturned(ret.outcome) =>
                            /\ RetRecord.occupation_code = s[i].code
                            /\ RetRecord.job_title = s[i].title
                /\ s[i].call = "get_internal_job_data" =>
                      /\ i > 1
                      /\ s[i - 1].call = "search_occupations"
                      /\ s[i - 1].answer = "no match"
            /\ (s # <<>> /\ IsReturned(ret.outcome)
                    /\ RetRecord.source = "internal_database") =>
                  /\ s[Len(s)].call = "get_internal_job_data"
                  /\ s[Len(s)].answer = "record"

\* C11 witness: the job_titles lookup yielded a code and the record carries it
C11_Witness ==
    /\ Called
    /\ Len(ret.steps) = 1
    /\ C11_YieldsCode(ret.steps[1])
    /\ IsReturned(ret.outcome)
    /\ RetRecord.occupation_code = SOC_43_4051

\* the lookup yielded none, the search matched, and the first match is used
C11_WitnessSearch ==
    /\ Called
    /\ Len(ret.steps) = 2
    /\ ret.steps[1].call = "job_titles"
    /\ ret.steps[2].answer = "matches"
    /\ IsReturned(ret.outcome)
    /\ RetRecord.occupation_code = SOC_51_4121

\* the lookup yielded none, the search matched nothing, the generic record is returned
C11_WitnessInternal ==
    /\ Called
    /\ Len(ret.steps) = 3
    /\ ret.steps[1].call = "job_titles"
    /\ ret.steps[3].call = "get_internal_job_data"
    /\ IsReturned(ret.outcome)
    /\ RetRecord.source = "internal_database"

(***************************************************************************)
(* The generic fallback record (get_internal_job_data)                     *)
(***************************************************************************)
\* occupation resolution of the latest call failed: the job_titles lookup, if
\* made, named no occupation and search_occupations returned no match
ResolutionFailed ==
    /\ Called
    /\ \E i \in 1..Len(ret.steps) :
        /\ ret.steps[i].call = "search_occupations"
        /\ ret.steps[i].answer = "no match"
        /\ \A j \in 1..(i - 1) : ret.steps[j].call = "job_titles"

\* C12 as claimed: for every non-special title whose occupation resolution
\* fails, get_job_data returns the generic fallback record without invoking
\* calculate_displacement_risk: risk_category "Moderate", risk values 25.0 /
\* 45.0 unless keyword sniffing selected Technology, Healthcare or Education;
\* "Unknown Job XYZ" gets 25.0 / 45.0, "Moderate" and job_category "General".
C12_FailedResolutionReturnsFallback ==
    ResolutionFailed =>
        /\ IsReturned(ret.outcome)
        /\ ret.classifier_calls = 0
        /\ RetRecord.source = "internal_database"
        /\ RetRecord.risk_category = "Moderate"
        /\ RetRecord.job_category \notin {"Technology", "Healthcare", "Education"} =>
              RetRecord.risk_scores = [year_1 |-> 250, year_5 |-> 450]
        /\ ret.job_title = T_Unknown_Job_XYZ =>
              /\ RetRecord.risk_scores = [year_1 |-> 250, year_5 |-> 450]
              /\ RetRecord.job_category = "General"

InternalDone == IsReturned(internal_result)
InternalRec == internal_result.returned
InternalTitleHas(kw) == Contains(Lower(internal_call.job_title), kw)

\* the half of C13 that holds: "develop" and "engineer" are tested first
C13_DevelopEngineerTechnology ==
    (InternalDone /\ (InternalTitleHas(K_develop) \/ InternalTitleHas(K_engineer))) =>
        InternalRec.job_category = "Technology"

\* C13 as claimed: in the generic fallback record every title containing
\* "develop" or "engineer" has job_category "Technology" and every title
\* containing "nurs" or "medic" has job_category "Healthcare".
C13_KeywordsSelectCategory ==
    InternalDone =>
        /\ (InternalTitleHas(K_develop) \/ InternalTitleHas(K_engineer)) =>
              InternalRec.job_category = "Technology"
        /\ (InternalTitleHas(K_nurs) \/ InternalTitleHas(K_medic)) =>
              InternalRec.job_category = "Healthcare"

(***************************************************************************)
(* Title normalization                                                     *)
(***************************************************************************)
Whitespace == {" ", "\t", "\n", "\r"}

RECURSIVE StripLeft(_)
StripLeft(s) ==
    IF s # <<>> /\ Head(s) \in Whitespace THEN StripLeft(Tail(s)) ELSE s

RECURSIVE StripRight(_)
StripRight(s) ==
    IF s # <<>> /\ s[Len(s)] \in Whitespace
    THEN StripRight(SubSeq(s, 1, Len(s) - 1)) ELSE s

\* str.strip()
Strip(s) == StripRight(StripLeft(s))

\* the call just made looked the title up under key: a cached record is
\* returned from the cache, and otherwise a special title gets its record
LookedUpUnder(key) ==
    /\ key \in DOMAIN job_cache =>
          /\ ret'.from_cache
          /\ ret'.outcome = Returned(job_cache[key])
    /\ (key \notin DOMAIN job_cache /\ key \in SpecialTitles) =>
          ret'.outcome = Returned(C4_Override(key))

\* C14 as claimed: get_job_data lower-cases and trims the title before the
\* cache lookup and the special-title match, so that titles differing only in
\* letter case or surrounding whitespace hit the same cache entry and the
\* same special branch and yield the same record.
C14_LowerCasedAndTrimmed ==
    [][calls' = calls + 1 => LookedUpUnder(Strip(Lower(ret'.job_title)))]_vars

\* what the code does: the title is lower-cased, and not trimmed
C14_LowerCasedOnly ==
    [][calls' = calls + 1 => LookedUpUnder(Lower(ret'.job_title))]_vars

(***************************************************************************)
(* Properties of the search history                                        *)
(***************************************************************************)
Requested == request # NoCall
SaveAttempted == Requested /\ "skipped" \notin DOMAIN request.saved

\* C15: recording a search is fire-and-forget.  Whenever a caller has tried
\* to record a lookup, through database.save_job_search or
\* db_fallback.save_job_search, and whether or not the write succeeded, no
\* exception of the write reaches the caller and the caller is left with the
\* job record the lookup returned.
C15_SaveFailureNeverReachesCaller ==
    SaveAttempted =>
        /\ IsReturned(request.saved)
        /\ IsReturned(request.outcome)
        /\ request.outcome = request.job_data

\* C15 witness: the commit of database.save_job_search failed during a search
\* of app.py, and the search went on with its record
C15_Witness ==
    /\ SaveAttempted
    /\ request.caller = "app.py"
    /\ request.saved = Returned(FALSE)
    /\ job_searches = <<>>
    /\ IsReturned(request.outcome)

\* the file write of db_fallback.save_job_search failed: the record is in
\* memory only and the caller has its job record
C15_WitnessLocal ==
    /\ SaveAttempted
    /\ request.caller = "db_fallback"
    /\ ~storage_file.exists
    /\ Len(session_job_searches) = 1
    /\ IsReturned(request.outcome)

\* C16 as claimed: when no database is reachable the local store takes over
\* with the same contracts: a lookup that app.py or db_refresh.py completed
\* while the database import had failed is recorded through save_job_search
\* and is listed by the next get_recent_searches.
C16_RecordedWhileDatabaseUnreachable ==
    (/\ database_import # "ok"
     /\ Requested
     /\ request.caller \in {"app.py", "db_refresh.py"}
     /\ IsReturned(request.job_data)
     /\ recent.called) =>
        /\ SaveAttempted
        /\ \E i \in 1..Len(recent.result) :
              recent.result[i].job_title = request.job_title

(***************************************************************************)
(* Properties of the job cache                                             *)
(***************************************************************************)
\* C17 as claimed: under every interleaving of the refresh job's and a live
\* request's get_job_data for the same title, a cache entry is immutable once
\* written: a later write to its key stores a record equal to the one there.
C17_CacheEntryImmutable ==
    [][\A k \in DOMAIN job_cache :
          k \in DOMAIN job_cache' /\ job_cache'[k] = job_cache[k]]_vars

\* an entry of the cache is gone or holds another record after the step
EntryLost == \E k \in DOMAIN job_cache : k \notin DOMAIN job_cache' \/ job_cache'[k] # job_cache[k]

C19_RefreshAtMostOncePerDay ==
    refresh_run.ran_before_at # NeverRan =>
        refresh_run.ran_at - refresh_run.ran_before_at >= HoursPerDay

(***************************************************************************)
(* Properties of the returned record's risk bucket                         *)
(***************************************************************************)
RiskBuckets == {"Low", "Moderate", "High", "Very High"}

\* the risk_category a record carries: its own key, or else the one of its
\* risk_analysis
CarriedCategory(record) ==
    IF "risk_category" \in DOMAIN record THEN record.risk_category
    ELSE IF "risk_analysis" \in DOMAIN record
            /\ "risk_category" \in DOMAIN record.risk_analysis
         THEN record.risk_analysis.risk_category
         ELSE "absent"

\* C20 as claimed: every record get_job_data returns, on the override, the
\* fallback and the classifier path, carries a risk_category that is one of
\* Low, Moderate, High, Very High.
C20_CategoryIsARiskBucket ==
    (Called /\ IsReturned(ret.outcome)) => CarriedCategory(RetRecord) \in RiskBuckets

(***************************************************************************)
(* Properties of the returned record's automation_probability              *)
(***************************************************************************)
\* the automation_probability a record carries, in hundredths: its own key,
\* or else the one of its risk_analysis; AbsentProbability when it has none
AbsentProbability == 0 - 1

CarriedProbability(record) ==
    IF "automation_probability" \in DOMAIN record THEN record.automation_probability
    ELSE IF "risk_analysis" \in DOMAIN record
            /\ "automation_probability" \in DOMAIN record.risk_analysis
         THEN record.risk_analysis.automation_probability
         ELSE AbsentProbability

\* C21 as claimed: every record get_job_data returns, on the override, the
\* fallback and the classifier path, carries an automation_probability in the
\* interval [0,1] (0..100 hundredths).
C21_ProbabilityInUnitInterval ==
    (Called /\ IsReturned(ret.outcome)) => CarriedProbability(RetRecord) \in 0..100

(***************************************************************************)
(* Properties of the assembled record's similar_jobs                       *)
(***************************************************************************)
\* the call resolved an occupation and assembled the record of lines 838-847
ResolutionSucceeded ==
    /\ Called
    /\ IsReturned(ret.outcome)
    /\ ~ret.from_cache
    /\ ret.classifier_calls > 0

\* C22 as claimed: when occupation resolution succeeds, the record
\* get_job_data assembles includes similar_jobs (other occupations of the
\* same 2-digit SOC prefix, each separately risk-classified).
C22_AssembledRecordHasSimilarJobs ==
    ResolutionSucceeded => "similar_jobs" \in DOMAIN RetRecord

(***************************************************************************)
(* Properties of the local search history (db_fallback.py)                 *)
(***************************************************************************)
\* a step of db_fallback.save_job_search
SavedLocally ==
    /\ clock' # clock
    /\ ~recent'.called
    /\ request' # NoCall
    /\ request'.caller = "db_fallback"

\* the record save_job_search builds at lines 22-28 in this step
SavedRecord ==
    [job_title |-> request'.job_title,
     year_1_risk |-> RiskData(request'.job_data.returned).year_1_risk,
     year_5_risk |-> RiskData(request'.job_data.returned).year_5_risk,
     timestamp |-> [iso |-> clock],
     risk_category |-> RiskData(request'.job_data.returned).risk_category]

\* the storage file holds the most recent StorageLimit searches of the list,
\* in the order they were saved
FileHolds(file, saved) ==
    /\ file.data = LastN(saved, StorageLimit)
    /\ Len(file.data) <= StorageLimit

\* C23 as claimed: after every call of save_job_search the storage file holds
\* exactly the most recent min(n, 100) searches in the order saved, also
\* when reading the existing file failed in the call: a call that writes
\* the file leaves it holding the searches it held before and the new one
\* after them, cut to the most recent 100.
C23_FileKeepsRecentSearches ==
    [][(SavedLocally
          /\ storage_file'.data # <<>>
          /\ storage_file'.data[Len(storage_file'.data)] = SavedRecord)
        => FileHolds(storage_file', Append(storage_file.data, SavedRecord))]_vars

\* C24: whenever db_fallback.save_job_search returns (True), the search is
\* the new last element of session_job_searches, whether or not reading or
\* writing the storage file failed.
C24_SavedSearchIsInMemory ==
    [][SavedLocally
        => /\ request'.saved = Returned(TRUE)
           /\ session_job_searches' = Append(session_job_searches, SavedRecord)]_vars

\* a save returned although the file could not be written: the list holds
\* searches and there is no file
C24_Witness ==
    /\ request # NoCall
    /\ request.caller = "db_fallback"
    /\ request.saved = Returned(TRUE)
    /\ Len(session_job_searches) >= 2
    /\ ~storage_file.exists

\* get_recent_searches returned the built-in sample searches
ReturnedSamples ==
    /\ recent.called
    /\ recent.result # <<>>
    /\ recent.result[1].job_title = T_Software_Engineer

NewestFirst(result) ==
    \A i \in 1..Len(result) : \A j \in i..Len(result) :
        result[i].timestamp.datetime >= result[j].timestamp.datetime

\* C25 as claimed: get_recent_searches(limit) returns at most limit searches,
\* newest first, and the sample searches only when neither the in-memory
\* list nor the storage file holds any search.
C25_SamplesOnlyWhenNothingStored ==
    ("limit" \in DOMAIN recent) =>
        /\ Len(recent.result) <= recent.limit
        /\ NewestFirst(recent.result)
        /\ ReturnedSamples =>
              /\ session_job_searches = <<>>
              /\ storage_file.data = <<>>

\* C25 amended: at most limit searches, newest first, and the sample searches
\* only when the in-memory list is empty and the call read no search from
\* the storage file: the file is absent, or reading it failed.
C25_SamplesOnlyWhenNothingRead ==
    ("limit" \in DOMAIN recent) =>
        /\ Len(recent.result) <= recent.limit
        /\ NewestFirst(recent.result)
        /\ ReturnedSamples =>
              /\ session_job_searches = <<>>
              /\ (~storage_file.exists \/ ~recent.read_ok)

\* the limit cut a longer history, which came back newest first
C25_Witness ==
    /\ "limit" \in DOMAIN recent
    /\ Len(recent.result) = recent.limit
    /\ Len(recent.result) >= 2
    /\ Len(session_job_searches) + Len(storage_file.data) > recent.limit
    /\ recent.result[1].timestamp.datetime > recent.result[2].timestamp.datetime

\* the samples came back while the file held a search that could not be read
C25_WitnessSamples ==
    /\ "limit" \in DOMAIN recent
    /\ ReturnedSamples
    /\ storage_file.data # <<>>

\* C29 as claimed: get_recent_searches returns each saved search at most
\* once.
C29_NoSearchReturnedTwice ==
    ("limit" \in DOMAIN recent) =>
        \A i \in 1..Len(recent.result) : \A j \in 1..Len(recent.result) :
            recent.result[i] = recent.result[j] => i = j

(***************************************************************************)
(* Properties of search_job_titles                                         *)
(***************************************************************************)
\* how a title matches a query: 0 exactly, 1 at its start, 2 inside, 3 not
MatchRank(title, query) ==
    IF Lower(title) = Lower(query) THEN 0
    ELSE IF StartsWith(Lower(title), Lower(query)) THEN 1
    ELSE IF Contains(Lower(title), Lower(query)) THEN 2
    ELSE 3

\* C26: with a non-empty query search_job_titles returns at most limit
\* titles, each title record at most once, exact matches before starts-with
\* matches before contains-only matches; with an empty query it returns
\* only titles flagged is_primary.
C26_RankedWithoutRepeats ==
    IsReturned(autocomplete_result) =>
        LET result == autocomplete_result.returned
            query == autocomplete_call.query
        IN  IF query # <<>>
            THEN /\ Len(result) <= autocomplete_call.limit
                 /\ \A i \in 1..Len(result) : \A j \in 1..Len(result) :
                       /\ result[i] = result[j] => i = j
                       /\ i < j => MatchRank(result[i].title, query)
                                      <= MatchRank(result[j].title, query)
            ELSE \A i \in 1..Len(result) : result[i].is_primary

\* a query that has an exact, a starts-with and a contains-only match, in
\* that order in the result although the table lists them otherwise
C26_Witness ==
    /\ IsReturned(autocomplete_result)
    /\ autocomplete_call.query = Q_NURSE
    /\ Len(autocomplete_result.returned) >= 3
    /\ autocomplete_call.job_titles[1].title = T_Registered_Nurse
    /\ MatchRank(autocomplete_result.returned[1].title, Q_NURSE) = 0
    /\ MatchRank(autocomplete_result.returned[2].title, Q_NURSE) = 1
    /\ MatchRank(autocomplete_result.returned[3].title, Q_NURSE) = 2

\* an empty query answered with the primary titles of a table that also
\* holds others
C26_WitnessEmptyQuery ==
    /\ IsReturned(autocomplete_result)
    /\ autocomplete_call.query = <<>>
    /\ autocomplete_result.returned # <<>>
    /\ Len(autocomplete_result.returned) < Len(autocomplete_call.job_titles)
    /\ Len(autocomplete_result.returned) < autocomplete_call.limit

(***************************************************************************)
(* Properties of the monthly refresh (app_production.py)                   *)
(***************************************************************************)
\* the calendar month of the call is later than the month of the session's
\* last_data_refresh
LaterMonth(call) ==
    call.today.year * 12 + call.today.month
        > call.session_date.year * 12 + call.session_date.month

\* C27: check_data_refresh empties the job cache, sets last_data_refresh to
\* the current date and returns True exactly when the current calendar month
\* is later than the month of last_data_refresh; otherwise it returns False
\* and leaves the cache and last_data_refresh unchanged.
C27_MonthlySchedule ==
    refresh_happened # NoCall =>
        IF LaterMonth(refresh_happened)
        THEN /\ refresh_happened.returned
             /\ refresh_happened.cache_emptied
             /\ refresh_happened.last_data_refresh = refresh_happened.today
        ELSE /\ ~refresh_happened.returned
             /\ refresh_happened.cache_unchanged
             /\ refresh_happened.last_data_refresh = refresh_happened.session_date

\* a call in a later month, across the turn of the year, that emptied a
\* cache holding a record
C27_Witness ==
    /\ refresh_happened # NoCall
    /\ refresh_happened.returned
    /\ refresh_happened.cache_was_filled
    /\ refresh_happened.today.year > refresh_happened.session_date.year
    /\ refresh_happened.today.month < refresh_happened.session_date.month

\* a call in the same month that left a filled cache alone
C27_WitnessSameMonth ==
    /\ refresh_happened # NoCall
    /\ ~refresh_happened.returned
    /\ refresh_happened.cache_was_filled
    /\ ~refresh_happened.cache_emptied

(***************************************************************************)
(* Properties of what the search history stores                            *)
(***************************************************************************)
\* the risk of a job record for the horizon: its risk_scores entry, or else
\* the entry of its risk_analysis
CarriedRisk(record, score_key, analysis_key) ==
    IF "risk_scores" \in DOMAIN record /\ score_key \in DOMAIN record.risk_scores
    THEN [num |-> record.risk_scores[score_key]]
    ELSE IF "risk_analysis" \in DOMAIN record
            /\ analysis_key \in DOMAIN record.risk_analysis
         THEN [num |-> record.risk_analysis[analysis_key]]
         ELSE [none |-> TRUE]

\* the row or record the latest recorded lookup left in its sink
StoredSearch ==
    IF request.caller = "db_fallback"
    THEN session_job_searches[Len(session_job_searches)]
    ELSE job_searches[Len(job_searches)]

\* the latest lookup was recorded
Recorded ==
    /\ request # NoCall
    /\ request.saved = Returned(TRUE)

\* C28 as claimed: for every recorded lookup the year-1 risk, year-5 risk and
\* risk category stored in the search history equal the values of the job
\* record get_job_data returned, on every path and for both sinks.
C28_StoredValuesAreTheRecords ==
    Recorded =>
        /\ StoredSearch.year_1_risk
              = CarriedRisk(request.job_data.returned, "year_1", "year_1_risk")
        /\ StoredSearch.year_5_risk
              = CarriedRisk(request.job_data.returned, "year_5", "year_5_risk")
        /\ StoredSearch.risk_category
              = [str |-> CarriedCategory(request.job_data.returned)]

(***************************************************************************)
(* The risk category across occupation groups                              *)
(***************************************************************************)
\* the call of calculate_displacement_risk with the arguments of the pending
\* call and another occupation code
SameCallWithCode(occ_code) ==
    calculate_displacement_risk(risk_call.job_title, occ_code, risk_call.occupation_data,
                                risk_call.projection_data)

\* C30: the risk_category calculate_displacement_risk returns depends on
\* percent_change alone: the call with the same percent_change and any other
\* occupation code returns the same risk_category.
C30_CategoryIgnoresOccupation ==
    RiskDone =>
        \A occ_code \in RiskOccCodes :
            /\ IsReturned(SameCallWithCode(occ_code))
            /\ SameCallWithCode(occ_code).returned.risk_category = RiskRec.risk_category

\* two calls with the same percent_change whose group adjustments give
\* different 1-year and 5-year risks
C30_Witness ==
    /\ RiskDone /\ CallHasPct
    /\ \E occ_code \in RiskOccCodes :
        /\ SameCallWithCode(occ_code).returned.year_1_risk # RiskRec.year_1_risk
        /\ SameCallWithCode(occ_code).returned.year_5_risk # RiskRec.year_5_risk
        /\ SameCallWithCode(occ_code).returned.risk_category = RiskRec.risk_category

====
